---------------------------- MODULE Spec2Model ----------------------------
(***************************************************************************)
(* EcoIndex: the tract scoring pipeline (EcoPercentileCalculator), the map *)
(* page that drives it (eco-map-tracts.js), the tract generator            *)
(* (CensusTractData), the county data service (EEService), the band        *)
(* synthesizer (SpectralIndicesCalculator) and the rule-based trend        *)
(* projector (SimpleAIPredictor).                                          *)
(*                                                                         *)
(* Numbers.  JavaScript numbers are modelled in exact fixed point:         *)
(*   - a score (waterQuality, greenspace, ecoScore, predictedScore,        *)
(*     annualDecline) is an integer number of thousandths of a point       *)
(*     (Pt = one point);                                                   *)
(*   - a coordinate is an integer number of 1e-5 degrees (Deg = 1 degree); *)
(*   - a Math.random() draw r in [0,1) is an integer number of             *)
(*     thousandths, 0 <= r < 1000;                                         *)
(*   - ecoPercentile is a plain integer.                                   *)
(* Floating-point rounding error is not modelled.                          *)
(***************************************************************************)
EXTENDS Integers, Sequences, FiniteSets, TLC

VARIABLES
    censusTractData,      \* CensusTractData: [initialized, tracts]
    props,                \* tract.properties of every tract object
    allScores,            \* ecoPercentileCalculator.allScores
    eeService,            \* EEService: [initialized, cache]
    predictions,          \* simpleAIPredictor.predictions (Map)
    bandCache,            \* spectralIndicesCalculator.cache (Map)
    run,                  \* the loadTractsForView activations in flight
    visibleTracts,        \* eco-map-tracts.js: visibleTracts
    actionFilterActive,   \* eco-map-tracts.js: actionFilterActive
    worstPredictedTracts, \* eco-map-tracts.js: worstPredictedTracts
    call                  \* the library call under study and what it returned

vars == << censusTractData, props, allScores, eeService, predictions,
           bandCache, run, visibleTracts, actionFilterActive,
           worstPredictedTracts, call >>

-----------------------------------------------------------------------------
(* Units and bounds *)

\* One score point, in thousandths.
Pt == 10 * 100
\* One degree, in units of 1e-5 degree.
Deg == 100 * 1000
\* null / undefined for a numeric property.
Null == 0 - 1

\* Columns of the tract grid the model generates (the source grid is 12 x 20).
GridCols == 2
\* Tracts scored between two progress delays (10 in the source, scaled with
\* the grid so that a run has several batches).
BatchSize == 1
\* loadTractsForView activations in flight at once.
MaxInFlight == 2
\* Longest batch of tracts handed to the library on its own.
MaxBatch == 2
\* Longest score array handed to calculatePercentile on its own.
MaxScores == 4

\* Math.random() draws the model enumerates (thousandths): 0.66 and 0.70.
\* In the Sonoma grid they give ecoScore 56.6 and 57.0, whose 15-year
\* projections 29.6 and 30.0 lie on either side of the 'critical' threshold.
RandVals == {660, 700}

Min(a, b) == IF a < b THEN a ELSE b
Max(a, b) == IF a > b THEN a ELSE b

\* Math.max(0, Math.min(100, x)) on scores.
Clamp100(x) == Max(0, Min(100 * Pt, x))

\* Math.round(num / den) for den > 0: halves round up (towards +Infinity;
\* \div rounds down, so this holds for negative num too).
MathRound(num, den) == (2 * num + den) \div (2 * den)

\* The elements of a sequence, as a set.
Range(s) == {s[i] : i \in DOMAIN s}

-----------------------------------------------------------------------------
(* EcoPercentileCalculator (src/eco-percentile.js, first definition) *)

\* calculateEcoScore with the weights 0.6 and 0.4 in place of 0.5 and 0.5.
calculateEcoScore_Weighted(waterQuality, greenspace) ==
    Clamp100((6 * waterQuality + 4 * greenspace) \div 10)

calculateEcoScore(waterQuality, greenspace) ==
    \* waterQuality * 0.5 + greenspace * 0.5, then clamped
    Clamp100((waterQuality + greenspace) \div 2)

\* Array.prototype.sort((a, b) => a - b): ascending, by insertion.
RECURSIVE InsertAsc(_, _)
InsertAsc(x, s) ==
    IF s = << >> THEN << x >>
    ELSE IF x < Head(s) THEN << x >> \o s
    ELSE << Head(s) >> \o InsertAsc(x, Tail(s))

RECURSIVE SortAsc(_)
SortAsc(s) ==
    IF s = << >> THEN << >>
    ELSE InsertAsc(s[Len(s)], SortAsc(SubSeq(s, 1, Len(s) - 1)))

calculatePercentile_StrictRank(score, scores) ==
    IF Len(scores) = 0 THEN [value |-> 50, allScores |-> scores]
    ELSE LET sorted == SortAsc(scores)
             rank == Cardinality({i \in DOMAIN sorted : sorted[i] < score})
         IN  [value |-> MathRound(rank * 100, Len(sorted)),
              allScores |-> scores]

calculatePercentile_NoRound(score, scores) ==
    IF Len(scores) = 0 THEN [value |-> 50, allScores |-> scores]
    ELSE LET sorted == SortAsc(scores)
             rank == Cardinality({i \in DOMAIN sorted : sorted[i] <= score})
         IN  [value |-> (rank * 100) \div Len(sorted),
              allScores |-> scores]

\* value: the percentile returned; allScores: the caller's array afterwards
\* (the sort works on a copy, [...allScores]).
calculatePercentile(score, scores) ==
    IF Len(scores) = 0 THEN [value |-> 50, allScores |-> scores]
    ELSE LET sorted == SortAsc(scores)
             rank == Cardinality({i \in DOMAIN sorted : sorted[i] <= score})
         IN  [value |-> MathRound(rank * 100, Len(sorted)),
              allScores |-> scores]

isUrbanArea(lat, lon) ==
    \/ (lat > 40 * Deg /\ lat < 42 * Deg /\ lon > -74 * Deg /\ lon < -73 * Deg)
    \/ (lat > 34 * Deg /\ lat < 35 * Deg /\ lon > -119 * Deg /\ lon < -118 * Deg)
    \/ (lat > 41 * Deg /\ lat < 42 * Deg /\ lon > -88 * Deg /\ lon < -87 * Deg)
    \/ (lat > 29 * Deg /\ lat < 30 * Deg /\ lon > -96 * Deg /\ lon < -95 * Deg)

Abs(x) == IF x < 0 THEN -x ELSE x

isCoastalArea(lat, lon) ==
    \/ Abs(lon + 80 * Deg) < 5 * Deg
    \/ Abs(lon + 122 * Deg) < 5 * Deg
    \/ (lat > 25 * Deg /\ lat < 31 * Deg /\ lon > -85 * Deg /\ lon < -80 * Deg)

\* (Math.random() - 0.5) * width, with the draw r in thousandths and width
\* in points.
Jitter(r, width) == (r - 500) * width

estimateWaterQualitySync(lat, lon, r) ==
    LET q0 == 60 * Pt
        q1 == IF isUrbanArea(lat, lon) THEN q0 - 15 * Pt ELSE q0
        q2 == IF isCoastalArea(lat, lon) THEN q1 + 10 * Pt ELSE q1
        q3 == IF lat > 40 * Deg /\ lat < 50 * Deg
                  /\ lon > -125 * Deg /\ lon < -100 * Deg
              THEN q2 + 5 * Pt ELSE q2
        q4 == q3 + Jitter(r, 20)
    IN  Clamp100(q4)

estimateGreenspaceSync_NoClamp(lat, lon, r) ==
    LET c0 == IF lat > 45 * Deg /\ lat < 50 * Deg
                  /\ lon > -125 * Deg /\ lon < -100 * Deg
              THEN 70 * Pt + Jitter(r, 20)
              ELSE IF lat > 32 * Deg /\ lat < 40 * Deg
                      /\ lon > -120 * Deg /\ lon < -110 * Deg
              THEN 15 * Pt + Jitter(r, 10)
              ELSE IF lat > 30 * Deg /\ lat < 36 * Deg
                      /\ lon > -90 * Deg /\ lon < -75 * Deg
              THEN 50 * Pt + Jitter(r, 20)
              ELSE 40 * Pt
    IN  IF isUrbanArea(lat, lon) THEN c0 - 20 * Pt ELSE c0

estimateGreenspaceSync(lat, lon, r) ==
    LET c0 == IF lat > 45 * Deg /\ lat < 50 * Deg
                  /\ lon > -125 * Deg /\ lon < -100 * Deg
              THEN 70 * Pt + Jitter(r, 20)
              ELSE IF lat > 32 * Deg /\ lat < 40 * Deg
                      /\ lon > -120 * Deg /\ lon < -110 * Deg
              THEN 15 * Pt + Jitter(r, 10)
              ELSE IF lat > 30 * Deg /\ lat < 36 * Deg
                      /\ lon > -90 * Deg /\ lon < -75 * Deg
              THEN 50 * Pt + Jitter(r, 20)
              ELSE 40 * Pt
        c1 == IF isUrbanArea(lat, lon) THEN c0 - 20 * Pt ELSE c0
    IN  Clamp100(c1)

getWaterColor(quality) ==
    IF quality >= 80 * Pt THEN "#003366"
    ELSE IF quality >= 60 * Pt THEN "#0066cc"
    ELSE IF quality >= 40 * Pt THEN "#3399ff"
    ELSE IF quality >= 20 * Pt THEN "#6699cc"
    ELSE "#cc6666"

getGreenspaceColor(coverage) ==
    IF coverage >= 80 * Pt THEN "#004d00"
    ELSE IF coverage >= 60 * Pt THEN "#006600"
    ELSE IF coverage >= 40 * Pt THEN "#339933"
    ELSE IF coverage >= 20 * Pt THEN "#66cc66"
    ELSE "#99ff99"

-----------------------------------------------------------------------------
(* EEService (src/unnamed/part_002) *)

EEService_isUrbanArea(lat, lon) ==
    \/ (lat > 40 * Deg /\ lat < 42 * Deg /\ lon > -74 * Deg /\ lon < -73 * Deg)
    \/ (lat > 34 * Deg /\ lat < 35 * Deg /\ lon > -119 * Deg /\ lon < -118 * Deg)
    \/ (lat > 41 * Deg /\ lat < 42 * Deg /\ lon > -88 * Deg /\ lon < -87 * Deg)
    \/ (lat > 29 * Deg /\ lat < 30 * Deg /\ lon > -96 * Deg /\ lon < -95 * Deg)
    \/ (lat > 37 * Deg /\ lat < 38 * Deg /\ lon > -123 * Deg /\ lon < -122 * Deg)

EEService_isCoastal(lat, lon) ==
    \/ Abs(lon + 80 * Deg) < 5 * Deg
    \/ Abs(lon + 122 * Deg) < 5 * Deg
    \/ (lat > 25 * Deg /\ lat < 31 * Deg /\ lon > -85 * Deg /\ lon < -80 * Deg)

calculateWaterQuality(lat, lon, r) ==
    LET q0 == IF lat > 40 * Deg /\ lat < 50 * Deg
                  /\ lon > -125 * Deg /\ lon < -100 * Deg
              THEN 75 * Pt + Jitter(r, 10)
              ELSE IF lat > 25 * Deg /\ lat < 35 * Deg
                      /\ lon > -85 * Deg /\ lon < -80 * Deg
              THEN 55 * Pt + Jitter(r, 15)
              ELSE IF lat > 32 * Deg /\ lat < 40 * Deg
                      /\ lon > -120 * Deg /\ lon < -110 * Deg
              THEN 45 * Pt + Jitter(r, 15)
              ELSE 60 * Pt
        q1 == IF EEService_isUrbanArea(lat, lon) THEN q0 - 10 * Pt ELSE q0
        q2 == IF EEService_isCoastal(lat, lon) THEN q1 + 5 * Pt ELSE q1
    IN  Clamp100(q2)

calculateGreenspace(lat, lon, r) ==
    LET c0 == IF lat > 45 * Deg /\ lat < 50 * Deg
                  /\ lon > -125 * Deg /\ lon < -100 * Deg
              THEN 70 * Pt + Jitter(r, 20)
              ELSE IF lat > 32 * Deg /\ lat < 40 * Deg
                      /\ lon > -120 * Deg /\ lon < -110 * Deg
              THEN 15 * Pt + Jitter(r, 10)
              ELSE IF lat > 30 * Deg /\ lat < 36 * Deg
                      /\ lon > -90 * Deg /\ lon < -75 * Deg
              THEN 50 * Pt + Jitter(r, 20)
              ELSE 40 * Pt
        c1 == IF EEService_isUrbanArea(lat, lon) THEN c0 - 20 * Pt ELSE c0
    IN  Clamp100(c1)

\* The record fetchCountyDataFromEE resolves to (ndvi, ndwi, date and source
\* are derived or constant and read by no caller modelled here).
fetchCountyDataFromEE(countyName, state, lat, lon, rw, rg) ==
    [county |-> countyName, state |-> state, lat |-> lat, lon |-> lon,
     waterQuality |-> calculateWaterQuality(lat, lon, rw),
     greenspace |-> calculateGreenspace(lat, lon, rg)]

\* `county_${countyName}_${state}`
CountyCacheKey(countyName, state) == << "county", countyName, state >>

(***************************************************************************)
(* getCountyData is async: the cache lookup runs when it is called, the    *)
(* cache write after the awaited fetch.  The calls made by one round of    *)
(* Promise.all(batch.map(...)) all start before any of them resumes, so    *)
(* every lookup of the round sees the cache as it was when the round       *)
(* started, and the writes then happen in call order.                      *)
(* reqs: the calls of the round, [countyName, state, lat, lon, rw, rg].    *)
(* Result: the data each call resolves to, and the cache afterwards.       *)
(***************************************************************************)
RECURSIVE CountyWrites(_, _, _)
CountyWrites(ee, cache, reqs) ==
    IF reqs = << >> THEN cache
    ELSE LET q == Head(reqs)
             key == CountyCacheKey(q.countyName, q.state)
             hit == ee.useCache /\ key \in DOMAIN ee.cache
             data == fetchCountyDataFromEE(q.countyName, q.state,
                                           q.lat, q.lon, q.rw, q.rg)
             next == IF ~hit /\ ee.useCache
                     THEN [k \in DOMAIN cache \cup {key} |->
                              IF k = key THEN data ELSE cache[k]]
                     ELSE cache
         IN  CountyWrites(ee, next, Tail(reqs))

getCountyDataRound(ee, reqs) ==
    [data |-> [i \in DOMAIN reqs |->
                 LET q == reqs[i]
                     key == CountyCacheKey(q.countyName, q.state)
                 IN  IF ee.useCache /\ key \in DOMAIN ee.cache
                     THEN ee.cache[key]
                     ELSE fetchCountyDataFromEE(q.countyName, q.state,
                                                q.lat, q.lon, q.rw, q.rg)],
     ee |-> [ee EXCEPT !.cache = CountyWrites(ee, ee.cache, reqs)]]

-----------------------------------------------------------------------------
(* Scoring a batch of tracts *)

\* The getCountyData requests estimateWaterQuality / estimateGreenspace make
\* for the tracts of a batch.
CountyReqs(batch, rw, rg) ==
    [i \in DOMAIN batch |->
        [countyName |-> "County", state |-> "State",
         lat |-> batch[i].lat, lon |-> batch[i].lon,
         rw |-> rw[i], rg |-> rg[i]]]

(***************************************************************************)
(* One Promise.all(batch.map(async tract => ...)) of processTractsAsync /  *)
(* processTractsWithProgress: every tract awaits estimateWaterQuality,     *)
(* then estimateGreenspace, then writes its properties.  With the service  *)
(* initialized the two estimates are two getCountyData rounds; otherwise   *)
(* they are the synchronous fallbacks.                                     *)
(* Result: [ee, wq, gs] with wq, gs indexed like batch.                    *)
(***************************************************************************)
estimateBatch(ee, batch, rw, rg) ==
    IF ee.initialized
    THEN LET r1 == getCountyDataRound(ee, CountyReqs(batch, rw, rg))
             r2 == getCountyDataRound(r1.ee, CountyReqs(batch, rw, rg))
         IN  [ee |-> r2.ee,
              wq |-> [i \in DOMAIN batch |-> r1.data[i].waterQuality],
              gs |-> [i \in DOMAIN batch |-> r2.data[i].greenspace]]
    ELSE [ee |-> ee,
          wq |-> [i \in DOMAIN batch |->
                    estimateWaterQualitySync(batch[i].lat, batch[i].lon, rw[i])],
          gs |-> [i \in DOMAIN batch |->
                    estimateGreenspaceSync(batch[i].lat, batch[i].lon, rg[i])]]

\* The synchronous estimates of processTracts.
estimateBatchSync(ee, batch, rw, rg) ==
    [ee |-> ee,
     wq |-> [i \in DOMAIN batch |->
               estimateWaterQualitySync(batch[i].lat, batch[i].lon, rw[i])],
     gs |-> [i \in DOMAIN batch |->
               estimateGreenspaceSync(batch[i].lat, batch[i].lon, rg[i])]]

\* tract.properties after the score writes of the map callback.
RECURSIVE WriteScores(_, _, _, _)
WriteScores(P, batch, est, i) ==
    IF i > Len(batch) THEN P
    ELSE LET t == batch[i]
             eco == calculateEcoScore(est.wq[i], est.gs[i])
         IN  WriteScores(
                [P EXCEPT ![t].waterQuality = est.wq[i],
                          ![t].greenspace = est.gs[i],
                          ![t].ecoScore = eco,
                          ![t].waterColor = getWaterColor(est.wq[i]),
                          ![t].greenspaceColor = getGreenspaceColor(est.gs[i])],
                batch, est, i + 1)

\* The ecoScore each callback returns.
BatchScores(batch, est) ==
    [i \in DOMAIN batch |-> calculateEcoScore(est.wq[i], est.gs[i])]

\* tracts.forEach(tract => tract.properties.ecoPercentile =
\*     calculatePercentile(tract.properties.ecoScore, allScores))
\* Result: [props, allScores].
RECURSIVE WritePercentiles(_, _, _, _)
WritePercentiles(P, scores, tracts, i) ==
    IF i > Len(tracts) THEN [props |-> P, allScores |-> scores]
    ELSE LET t == tracts[i]
             res == calculatePercentile(P[t].ecoScore, scores)
         IN  WritePercentiles([P EXCEPT ![t].ecoPercentile = res.value],
                              res.allScores, tracts, i + 1)

-----------------------------------------------------------------------------
(* SimpleAIPredictor (src/SPECTRAL_INDICES_GUIDE.md) *)

SimpleAIPredictor_isUrbanArea(lat, lon) ==
    \/ (lat > 40 * Deg /\ lat < 42 * Deg /\ lon > -74 * Deg /\ lon < -73 * Deg)
    \/ (lat > 34 * Deg /\ lat < 35 * Deg /\ lon > -119 * Deg /\ lon < -118 * Deg)
    \/ (lat > 41 * Deg /\ lat < 42 * Deg /\ lon > -88 * Deg /\ lon < -87 * Deg)
    \/ (lat > 29 * Deg /\ lat < 30 * Deg /\ lon > -96 * Deg /\ lon < -95 * Deg)
    \/ (lat > 37 * Deg /\ lat < 38 * Deg /\ lon > -123 * Deg /\ lon < -122 * Deg)

isSuburban(lat, lon) ==
    \/ (lat > 39 * Deg /\ lat < 41 * Deg /\ lon > -75 * Deg /\ lon < -73 * Deg)
    \/ (lat > 33 * Deg /\ lat < 35 * Deg /\ lon > -118 * Deg /\ lon < -117 * Deg)
    \/ (lat > 40 * Deg /\ lat < 42 * Deg /\ lon > -89 * Deg /\ lon < -87 * Deg)

isProtectedArea(lat, lon) ==
    \/ (lat > 44 * Deg /\ lat < 50 * Deg /\ lon > -125 * Deg /\ lon < -110 * Deg)
    \/ (lat > 36 * Deg /\ lat < 38 * Deg /\ lon > -120 * Deg /\ lon < -115 * Deg)
    \/ (lat > 35 * Deg /\ lat < 37 * Deg /\ lon > -84 * Deg /\ lon < -82 * Deg)

\* isCoastal without the West Coast band.
SimpleAIPredictor_isCoastal_NoWestCoast(lat, lon) ==
    \/ Abs(lon + 80 * Deg) < 5 * Deg
    \/ (lat > 25 * Deg /\ lat < 31 * Deg /\ lon > -85 * Deg /\ lon < -80 * Deg)

SimpleAIPredictor_isCoastal(lat, lon) ==
    \/ Abs(lon + 80 * Deg) < 5 * Deg
    \/ Abs(lon + 122 * Deg) < 5 * Deg
    \/ (lat > 25 * Deg /\ lat < 31 * Deg /\ lon > -85 * Deg /\ lon < -80 * Deg)

\* calculateTrend with the coastal test moved ahead of the protected-area
\* test.
calculateTrend_CoastalFirst(lat, lon) ==
    IF SimpleAIPredictor_isUrbanArea(lat, lon) THEN "declining"
    ELSE IF SimpleAIPredictor_isCoastal(lat, lon) THEN "at_risk"
    ELSE IF isProtectedArea(lat, lon) THEN "stable"
    ELSE "slight_decline"

calculateTrend(lat, lon) ==
    IF SimpleAIPredictor_isUrbanArea(lat, lon) THEN "declining"
    ELSE IF isProtectedArea(lat, lon) THEN "stable"
    ELSE IF SimpleAIPredictor_isCoastal(lat, lon) THEN "at_risk"
    ELSE "slight_decline"

\* Factors and declines are in thousandths of a point per year.
getRegionalTrendFactor(lat, lon) ==
    IF lat > 34 * Deg /\ lat < 36 * Deg /\ lon > -119 * Deg /\ lon < -117 * Deg
    THEN -800
    ELSE IF lat > 40 * Deg /\ lat < 42 * Deg
            /\ lon > -74 * Deg /\ lon < -73 * Deg
    THEN -700
    ELSE IF lat > 45 * Deg /\ lat < 50 * Deg
            /\ lon > -125 * Deg /\ lon < -100 * Deg
    THEN -200
    ELSE -500

\* getUrbanPressureFactor with the suburban test moved ahead of the urban
\* test.
getUrbanPressureFactor_SuburbanFirst(lat, lon) ==
    IF isSuburban(lat, lon) THEN -800
    ELSE IF SimpleAIPredictor_isUrbanArea(lat, lon) THEN -1200
    ELSE -300

getUrbanPressureFactor(lat, lon) ==
    IF SimpleAIPredictor_isUrbanArea(lat, lon) THEN -1200
    ELSE IF isSuburban(lat, lon) THEN -800
    ELSE -300

calculateAnnualDecline(trend, regionalFactor, urbanPressure) ==
    LET baseDecline == CASE trend = "declining" -> -1500
                         [] trend = "at_risk" -> -1000
                         [] trend = "slight_decline" -> -500
                         [] trend = "stable" -> -100
                         [] OTHER -> 0
    IN  baseDecline + regionalFactor + urbanPressure

calculateRiskLevel_Inclusive(currentScore, predictedScore, yearsAhead) ==
    LET decline == currentScore - predictedScore
    IN  IF predictedScore <= 30 * Pt \/ decline > 2 * Pt * yearsAhead
        THEN "critical"
        ELSE IF predictedScore <= 50 * Pt \/ 2 * decline > 3 * Pt * yearsAhead
        THEN "high"
        ELSE IF 2 * decline > Pt * yearsAhead
        THEN "moderate"
        ELSE "low"

\* calculateRiskLevel with the moderate tier starting above a decline rate
\* of 1 in place of 0.5.
calculateRiskLevel_ModerateAboveOne(currentScore, predictedScore, yearsAhead) ==
    LET decline == currentScore - predictedScore
    IN  IF predictedScore < 30 * Pt \/ decline > 2 * Pt * yearsAhead
        THEN "critical"
        ELSE IF predictedScore < 50 * Pt \/ 2 * decline > 3 * Pt * yearsAhead
        THEN "high"
        ELSE IF decline > Pt * yearsAhead
        THEN "moderate"
        ELSE "low"

\* declineRate = (currentScore - predictedScore) / yearsAhead is compared
\* with 2, 1.5 and 0.5 after multiplying through by 2 * yearsAhead.
calculateRiskLevel(currentScore, predictedScore, yearsAhead) ==
    LET decline == currentScore - predictedScore
    IN  IF predictedScore < 30 * Pt \/ decline > 2 * Pt * yearsAhead
        THEN "critical"
        ELSE IF predictedScore < 50 * Pt \/ 2 * decline > 3 * Pt * yearsAhead
        THEN "high"
        ELSE IF 2 * decline > Pt * yearsAhead
        THEN "moderate"
        ELSE "low"

\* Number.prototype.toFixed(4) of a coordinate: the nearest multiple of 1e-4,
\* halves away from zero; the result is in units of 1e-4 degree.
toFixed4(x) == IF x >= 0 THEN (x + 5) \div 10 ELSE -((-x + 5) \div 10)

PredictionKey(lat, lon, yearsAhead) ==
    << toFixed4(lat), toFixed4(lon), yearsAhead >>

needsAction_CriticalOnly(riskLevel) == riskLevel = "critical"

needsAction(riskLevel) == riskLevel = "critical" \/ riskLevel = "high"

\* Math.floor in place of Math.round.
RoundScore_Floor(x) == (x \div Pt) * Pt

\* Math.round of a score, in points.
RoundScore(x) == MathRound(x, Pt) * Pt

\* predictFutureEcoScore storing the Prediction in the cache with the
\* projection not yet rounded, while returning the rounded one.
predictFutureEcoScore_StoreUnrounded(cache, t, p, yearsAhead) ==
    LET cacheKey == PredictionKey(t.lat, t.lon, yearsAhead)
    IN  IF cacheKey \in DOMAIN cache
        THEN [prediction |-> cache[cacheKey], cache |-> cache]
        ELSE
        LET currentScore == IF p.ecoScore = Null \/ p.ecoScore = 0
                            THEN 50 * Pt ELSE p.ecoScore
            trend == calculateTrend(t.lat, t.lon)
            regionalFactor == getRegionalTrendFactor(t.lat, t.lon)
            urbanPressure == getUrbanPressureFactor(t.lat, t.lon)
            annualDecline ==
                calculateAnnualDecline(trend, regionalFactor, urbanPressure)
            predictedScore == Clamp100(currentScore + annualDecline * yearsAhead)
            riskLevel == calculateRiskLevel(currentScore, predictedScore,
                                            yearsAhead)
            prediction ==
                [currentScore |-> currentScore,
                 predictedScore |-> RoundScore(predictedScore),
                 yearsAhead |-> yearsAhead,
                 annualDecline |-> annualDecline,
                 riskLevel |-> riskLevel,
                 needsAction |-> needsAction(riskLevel),
                 trend |-> trend,
                 regionalFactor |-> regionalFactor,
                 urbanPressure |-> urbanPressure]
        IN  [prediction |-> prediction,
             cache |-> [k \in DOMAIN cache \cup {cacheKey} |->
                          IF k = cacheKey
                          THEN [prediction EXCEPT
                                  !.predictedScore = predictedScore]
                          ELSE cache[k]]]

(***************************************************************************)
(* predictFutureEcoScore(tract, yearsAhead); the function has no await, so *)
(* it runs to completion when called.  p is tract.properties.              *)
(* Result: [prediction, cache].  (waterQuality and greenspace are read     *)
(* into locals that are not used.)                                         *)
(***************************************************************************)
predictFutureEcoScore(cache, t, p, yearsAhead) ==
    LET cacheKey == PredictionKey(t.lat, t.lon, yearsAhead)
    IN  IF cacheKey \in DOMAIN cache
        THEN [prediction |-> cache[cacheKey], cache |-> cache]
        ELSE
        LET \* tract.properties.ecoScore || 50
            currentScore == IF p.ecoScore = Null \/ p.ecoScore = 0
                            THEN 50 * Pt ELSE p.ecoScore
            trend == calculateTrend(t.lat, t.lon)
            regionalFactor == getRegionalTrendFactor(t.lat, t.lon)
            urbanPressure == getUrbanPressureFactor(t.lat, t.lon)
            annualDecline ==
                calculateAnnualDecline(trend, regionalFactor, urbanPressure)
            predictedScore == Clamp100(currentScore + annualDecline * yearsAhead)
            riskLevel == calculateRiskLevel(currentScore, predictedScore,
                                            yearsAhead)
            prediction ==
                [currentScore |-> currentScore,
                 predictedScore |-> RoundScore(predictedScore),
                 yearsAhead |-> yearsAhead,
                 annualDecline |-> annualDecline,
                 riskLevel |-> riskLevel,
                 needsAction |-> needsAction(riskLevel),
                 trend |-> trend,
                 regionalFactor |-> regionalFactor,
                 urbanPressure |-> urbanPressure]
        IN  [prediction |-> prediction,
             cache |-> [k \in DOMAIN cache \cup {cacheKey} |->
                          IF k = cacheKey THEN prediction ELSE cache[k]]]

riskOrder(riskLevel) ==
    CASE riskLevel = "critical" -> 0
      [] riskLevel = "high" -> 1
      [] riskLevel = "moderate" -> 2
      [] riskLevel = "low" -> 3

WorstCompare_NoTieBreak(a, b) ==
    riskOrder(a.prediction.riskLevel) - riskOrder(b.prediction.riskLevel)

\* The comparator of predictions.sort in getWorstPredictedTracts.
WorstCompare(a, b) ==
    LET riskDiff == riskOrder(a.prediction.riskLevel)
                    - riskOrder(b.prediction.riskLevel)
    IN  IF riskDiff # 0 THEN riskDiff
        ELSE a.prediction.predictedScore - b.prediction.predictedScore

\* Array.prototype.sort(WorstCompare): stable, by insertion.
RECURSIVE InsertWorst(_, _)
InsertWorst(x, s) ==
    IF s = << >> THEN << x >>
    ELSE IF WorstCompare(x, Head(s)) < 0 THEN << x >> \o s
    ELSE << Head(s) >> \o InsertWorst(x, Tail(s))

RECURSIVE SortWorst(_)
SortWorst(s) ==
    IF s = << >> THEN << >>
    ELSE InsertWorst(s[Len(s)], SortWorst(SubSeq(s, 1, Len(s) - 1)))

\* The predictFutureEcoScore calls of getWorstPredictedTracts, in tract
\* order.  Result: [preds, cache], preds a sequence of [tract, prediction].
RECURSIVE PredictAll(_, _, _, _, _)
PredictAll(cache, P, tracts, yearsAhead, acc) ==
    IF tracts = << >> THEN [preds |-> acc, cache |-> cache]
    ELSE LET t == Head(tracts)
             res == predictFutureEcoScore(cache, t, P[t], yearsAhead)
         IN  PredictAll(res.cache, P, Tail(tracts), yearsAhead,
                        Append(acc, [tract |-> t, prediction |-> res.prediction]))

SelectNeedsAction(s) == SelectSeq(s, LAMBDA q : q.prediction.needsAction)

\* .map(p => { p.tract.properties.prediction = p.prediction; return p.tract })
RECURSIVE AttachPredictions(_, _)
AttachPredictions(P, kept) ==
    IF kept = << >> THEN P
    ELSE AttachPredictions(
            [P EXCEPT ![Head(kept).tract].prediction = << Head(kept).prediction >>],
            Tail(kept))

\* Result: [worst, props, cache, preds]; worst is the returned array, preds
\* what each predictFutureEcoScore call returned.
getWorstPredictedTracts(cache, P, tracts, yearsAhead) ==
    LET all == PredictAll(cache, P, tracts, yearsAhead, << >>)
        sorted == SortWorst(all.preds)
        kept == SelectNeedsAction(sorted)
    IN  [worst |-> [i \in DOMAIN kept |-> kept[i].tract],
         props |-> AttachPredictions(P, kept),
         cache |-> all.cache,
         preds |-> all.preds]

-----------------------------------------------------------------------------
(* CensusTractData (src/census-tracts.js) *)

\* A tract object is identified by its centroid; its mutable part is
\* props[tract].  generateTractsForRegion sets ecoPercentile, waterQuality and
\* greenspace to null; the other properties are undefined until written.
Tract(lat, lon) == [lat |-> lat, lon |-> lon]

FreshProps ==
    [waterQuality |-> Null, greenspace |-> Null, ecoScore |-> Null,
     ecoPercentile |-> Null, waterColor |-> "", greenspaceColor |-> "",
     prediction |-> << >>]

\* density: 'high' -> 0.05, 'medium' -> 0.1, otherwise 0.2 degrees.
DensityStep(density) ==
    IF density = "high" THEN 5000
    ELSE IF density = "medium" THEN 10000 ELSE 20000

\* The inner loop: for (lon = minLon; lon < maxLon; lon += lonStep).
RECURSIVE GridRow(_, _, _, _, _)
GridRow(lat, lon, maxLon, latStep, lonStep) ==
    IF lon < maxLon
    THEN << Tract(lat + latStep \div 2, lon + lonStep \div 2) >>
         \o GridRow(lat, lon + lonStep, maxLon, latStep, lonStep)
    ELSE << >>

\* The outer loop: for (lat = minLat; lat < maxLat; lat += latStep).
RECURSIVE GridRows(_, _, _, _)
GridRows(lat, bounds, latStep, lonStep) ==
    IF lat < bounds.maxLat
    THEN GridRow(lat, bounds.minLon, bounds.maxLon, latStep, lonStep)
         \o GridRows(lat + latStep, bounds, latStep, lonStep)
    ELSE << >>

generateTractsForRegion(bounds, density) ==
    GridRows(bounds.minLat, bounds, DensityStep(density), DensityStep(density))

\* The Sonoma County test region starts at 38.2N, 123.5W; the model keeps one
\* row of GridCols cells of it (the source region is 0.6 x 1.0 degrees).
testBounds ==
    [minLat |-> 3820000, maxLat |-> 3820000 + DensityStep("high"),
     minLon |-> -12350000,
     maxLon |-> -12350000 + GridCols * DensityStep("high")]

GridTracts == generateTractsForRegion(testBounds, "high")

\* Tract objects a caller of the library may build besides the grid's: Los
\* Angeles (urban, desert-southwest box) and the Pacific Northwest
\* (protected area).
SampleTracts == { Tract(3450000, -11850000), Tract(4600000, -12000000) }

\* The tracts library calls are made with: the samples and a grid tract.
LibTracts == SampleTracts \cup {GridTracts[1]}

AllTracts == Range(GridTracts) \cup SampleTracts

\* Result: [census, props].  A generated tract is a new object.
generateUSTracts_Regenerate(cs, P) ==
    [census |-> [initialized |-> TRUE, tracts |-> GridTracts],
     props |-> [t \in DOMAIN P |->
                  IF t \in Range(GridTracts) THEN FreshProps ELSE P[t]]]

generateUSTracts(cs, P) ==
    IF cs.initialized /\ Len(cs.tracts) > 0
    THEN [census |-> cs, props |-> P]
    ELSE [census |-> [initialized |-> TRUE, tracts |-> GridTracts],
          props |-> [t \in DOMAIN P |->
                       IF t \in Range(GridTracts) THEN FreshProps ELSE P[t]]]

InBounds(t, mapBounds) ==
    /\ t.lat >= mapBounds.south
    /\ t.lat <= mapBounds.north
    /\ t.lon >= mapBounds.west
    /\ t.lon <= mapBounds.east

\* Result: [tracts, census, props].
getTractsInBounds(cs, P, mapBounds) ==
    LET gen == generateUSTracts(cs, P)
    IN  [tracts |-> SelectSeq(gen.census.tracts,
                              LAMBDA t : InBounds(t, mapBounds)),
         census |-> gen.census,
         props |-> gen.props]

-----------------------------------------------------------------------------
(* The map page (src/eco-map-tracts.js) *)

maxTracts == 500

\* The handlers that start loadTractsForView: map 'load', and the debounced
\* 'moveend' and 'zoomend' handlers (each with a debounce timer of its own).
Handlers == {"load", "moveend", "zoomend"}

\* What map.getBounds() may return: the whole grid, its western column, and
\* a view off the grid.
Viewports ==
    { [south |-> 38 * Deg, north |-> 39 * Deg,
       west |-> -124 * Deg, east |-> -122 * Deg],
      [south |-> 38 * Deg, north |-> 39 * Deg,
       west |-> -124 * Deg, east |-> -12345000],
      [south |-> 40 * Deg, north |-> 41 * Deg,
       west |-> -124 * Deg, east |-> -122 * Deg] }

IdleRun == [pc |-> "idle", tracts |-> << >>, i |-> 0, results |-> << >>]

\* tracts.slice(i, i + batchSize), i counted from 0.
BatchAt(tracts, i) == SubSeq(tracts, i + 1, Min(i + BatchSize, Len(tracts)))

Draws(batch) == [DOMAIN batch -> RandVals]

\* One iteration of the for loop of processTractsWithProgress, up to its
\* await of the 10 ms timer.  Result: [ee, props, scores].
ProgressBatch(ee, P, batch, rw, rg) ==
    LET est == estimateBatch(ee, batch, rw, rg)
    IN  [ee |-> est.ee,
         props |-> WriteScores(P, batch, est, 1),
         scores |-> BatchScores(batch, est)]

\* The tail of processTractsWithProgress after the loop.
\* Result: [props, allScores].
ProgressFinish(P, tracts, results) == WritePercentiles(P, results, tracts, 1)

(***************************************************************************)
(* loadTractsForView, from its start to the first timer await of           *)
(* processTractsWithProgress (no macrotask boundary in between).  With no  *)
(* tract in view the loop body never runs and the whole function completes *)
(* here.  (The branch for an undefined ecoPercentileCalculator is not      *)
(* modelled: the calculator script is loaded.  The const declarations      *)
(* repeated at lines 113-115 are read as the ones at lines 93-95.)         *)
(* The map's 'load' event fires once, and before the first debounced       *)
(* handler call.                                                           *)
(***************************************************************************)
LoadTractsForView(h, mapBounds) ==
    /\ run[h].pc = "idle"
    /\ h # "load" => run["load"].pc # "idle"
    /\ Cardinality({g \in Handlers : run[g].pc = "delay"}) < MaxInFlight
    /\ \E got \in {getTractsInBounds(censusTractData, props, mapBounds)} :
       \E limitedTracts \in
             {SubSeq(got.tracts, 1, Min(Len(got.tracts), maxTracts))} :
          /\ censusTractData' = got.census
          /\ IF Len(limitedTracts) = 0
             THEN /\ \E fin \in {ProgressFinish(got.props, limitedTracts, << >>)} :
                        /\ props' = fin.props
                        /\ allScores' = fin.allScores
                  /\ visibleTracts' = limitedTracts
                  /\ run' = [run EXCEPT ![h] = IF h = "load"
                                               THEN [IdleRun EXCEPT !.pc = "done"]
                                               ELSE IdleRun]
                  /\ UNCHANGED eeService
             ELSE \E rw \in Draws(BatchAt(limitedTracts, 0)),
                     rg \in Draws(BatchAt(limitedTracts, 0)) :
                  \E b \in {ProgressBatch(eeService, got.props,
                                          BatchAt(limitedTracts, 0), rw, rg)} :
                        /\ props' = b.props
                        /\ eeService' = b.ee
                        /\ run' = [run EXCEPT ![h] =
                                     [pc |-> "delay", tracts |-> limitedTracts,
                                      i |-> 0, results |-> b.scores]]
                        /\ UNCHANGED << allScores, visibleTracts >>
    /\ UNCHANGED << predictions, bandCache, actionFilterActive,
                    worstPredictedTracts, call >>

\* The 10 ms timer fires and the loop has another batch.
NextBatch(h) ==
    /\ run[h].pc = "delay"
    /\ run[h].i + BatchSize < Len(run[h].tracts)
    /\ LET i == run[h].i + BatchSize
           batch == BatchAt(run[h].tracts, i)
       IN  \E rw \in Draws(batch), rg \in Draws(batch) :
           \E b \in {ProgressBatch(eeService, props, batch, rw, rg)} :
                  /\ props' = b.props
                  /\ eeService' = b.ee
                  /\ run' = [run EXCEPT ![h].i = i,
                                        ![h].results = run[h].results \o b.scores]
    /\ UNCHANGED << censusTractData, allScores, predictions, bandCache,
                    visibleTracts, actionFilterActive, worstPredictedTracts,
                    call >>

\* The 10 ms timer fires after the last batch: percentiles are written,
\* loadTractsForView assigns visibleTracts and calls updateTractLayers.
FinishRun(h) ==
    /\ run[h].pc = "delay"
    /\ run[h].i + BatchSize >= Len(run[h].tracts)
    /\ \E fin \in {ProgressFinish(props, run[h].tracts, run[h].results)} :
          /\ props' = fin.props
          /\ allScores' = fin.allScores
    /\ visibleTracts' = run[h].tracts
    /\ run' = [run EXCEPT ![h] = IF h = "load"
                                 THEN [IdleRun EXCEPT !.pc = "done"]
                                 ELSE IdleRun]
    /\ UNCHANGED << censusTractData, eeService, predictions, bandCache,
                    actionFilterActive, worstPredictedTracts, call >>

\* window 'load' + 1 s: eeService.initialize().
EEInitialize ==
    /\ ~eeService.initialized
    /\ eeService' = [eeService EXCEPT !.initialized = TRUE]
    /\ UNCHANGED << censusTractData, props, allScores, predictions, bandCache,
                    run, visibleTracts, actionFilterActive,
                    worstPredictedTracts, call >>

\* toggleActionFilter: with the filter switched on, the predictions of the
\* visible tracts for 15 years ahead (no timer is awaited on the way).
ToggleActionFilter ==
    /\ actionFilterActive' = ~actionFilterActive
    /\ IF ~actionFilterActive
       THEN \E w \in {getWorstPredictedTracts(predictions, props,
                                               visibleTracts, 15)} :
                /\ worstPredictedTracts' = w.worst
                /\ props' = w.props
                /\ predictions' = w.cache
       ELSE UNCHANGED << worstPredictedTracts, props, predictions >>
    /\ UNCHANGED << censusTractData, allScores, eeService, bandCache, run,
                    visibleTracts, call >>

NoCall == [op |-> "none"]

\* The globals as the scripts' top-level code leaves them.
InitGlobals ==
    /\ censusTractData = [initialized |-> FALSE, tracts |-> << >>]
    /\ props = [t \in AllTracts |-> FreshProps]
    /\ allScores = << >>
    /\ eeService = [initialized |-> FALSE, useCache |-> TRUE, cache |-> << >>]
    /\ predictions = << >>
    /\ bandCache = << >>
    /\ run = [h \in Handlers |-> IdleRun]
    /\ visibleTracts = << >>
    /\ actionFilterActive = FALSE
    /\ worstPredictedTracts = << >>

Init ==
    /\ InitGlobals
    /\ call = NoCall

Next ==
    \/ \E h \in Handlers, v \in Viewports : LoadTractsForView(h, v)
    \/ \E h \in Handlers : NextBatch(h)
    \/ \E h \in Handlers : FinishRun(h)
    \/ EEInitialize
    \/ ToggleActionFilter

Spec == Init /\ [][Next]_vars

-----------------------------------------------------------------------------
(* calculatePercentile on its own *)

\* Scores handed to calculatePercentile (thousandths of a point).
ScoreVals == {0, 56600, 57 * Pt, 100 * Pt}

SeqsUpTo(S, n) == UNION {[1..k -> S] : k \in 0..n}

\* The variables of the map page, which a library call leaves alone.
pageVars == << censusTractData, run, visibleTracts, actionFilterActive,
               worstPredictedTracts >>

InitPercentile ==
    /\ InitGlobals
    /\ \E score \in ScoreVals, scores \in SeqsUpTo(ScoreVals, MaxScores) :
          call = [op |-> "percentileInput", score |-> score, scores |-> scores]

\* ecoPercentileCalculator.calculatePercentile(score, scores); `after` is the
\* caller's array once the call has returned.
CalculatePercentile ==
    /\ call.op = "percentileInput"
    /\ \E res \in {calculatePercentile(call.score, call.scores)} :
          call' = [op |-> "calculatePercentile", score |-> call.score,
                   scores |-> call.scores, value |-> res.value,
                   after |-> res.allScores]
    /\ UNCHANGED << pageVars, props, allScores, eeService, predictions,
                    bandCache >>

NextPercentile == CalculatePercentile

SpecPercentile == InitPercentile /\ [][NextPercentile]_vars

\* The number of scores of a batch that are <= score.
CountAtMost(score, scores) ==
    Cardinality({i \in DOMAIN scores : scores[i] <= score})

\* C9: for a non-empty batch of N scores, calculatePercentile(s, batch) is
\* round(100 * count(x in batch with x <= s) / N), a count that does not
\* depend on the order of the batch, and the batch array is left as it was.
PercentileIsRankShare ==
    (call.op = "calculatePercentile" /\ Len(call.scores) > 0) =>
        /\ call.value = MathRound(100 * CountAtMost(call.score, call.scores),
                                  Len(call.scores))
        /\ call.after = call.scores

\* C9 witness: an unsorted batch of three, two of them <= s, rounded up to 67.
PercentileOfUnsortedBatch ==
    /\ call.op = "calculatePercentile"
    /\ Len(call.scores) = 3
    /\ call.scores[1] > call.scores[2]
    /\ CountAtMost(call.score, call.scores) = 2
    /\ call.value = 67
    /\ call.after = call.scores

\* C10: in a non-empty batch of N the maximum has percentile 100, and a
\* minimum that occurs exactly once has percentile round(100 / N).
PercentileOfExtremes ==
    (call.op = "calculatePercentile" /\ Len(call.scores) > 0
        /\ call.score \in Range(call.scores)) =>
        /\ (\A i \in DOMAIN call.scores : call.scores[i] <= call.score)
              => call.value = 100
        /\ (/\ \A i \in DOMAIN call.scores : call.scores[i] >= call.score
            /\ Cardinality({i \in DOMAIN call.scores :
                                call.scores[i] = call.score}) = 1)
              => call.value = MathRound(100, Len(call.scores))

\* C10 witness: the unique minimum of a batch of three, percentile 33.
PercentileOfUniqueMinimum ==
    /\ call.op = "calculatePercentile"
    /\ Len(call.scores) = 3
    /\ call.score \in Range(call.scores)
    /\ \A i \in DOMAIN call.scores : call.scores[i] >= call.score
    /\ Cardinality({i \in DOMAIN call.scores : call.scores[i] = call.score}) = 1
    /\ call.value = 33

-----------------------------------------------------------------------------
(* Scoring a batch through the library: processTracts, processTractsAsync  *)
(* and processTractsWithProgress                                           *)

\* The batches a caller hands in: non-empty, no tract object twice.
LibBatches ==
    {b \in SeqsUpTo(LibTracts, MaxBatch) :
        Len(b) > 0 /\ \A i, j \in DOMAIN b : i # j => b[i] # b[j]}

ScoreOps == {"processTracts", "processTractsAsync", "processTractsWithProgress"}

InitScore ==
    /\ InitGlobals
    /\ \E b \in LibBatches : call = [op |-> "scoreInput", tracts |-> b]

\* No scoring call is in progress.
ScoreIdle == call.op = "scoreInput" \/ call.op \in ScoreOps

\* ecoPercentileCalculator.processTracts(tracts)
ProcessTracts ==
    /\ ScoreIdle
    /\ \E rw \in Draws(call.tracts), rg \in Draws(call.tracts) :
       \E est \in {estimateBatchSync(eeService, call.tracts, rw, rg)} :
       \E fin \in {WritePercentiles(WriteScores(props, call.tracts, est, 1),
                                     BatchScores(call.tracts, est),
                                     call.tracts, 1)} :
          /\ props' = fin.props
          /\ allScores' = fin.allScores
    /\ call' = [op |-> "processTracts", tracts |-> call.tracts]
    /\ UNCHANGED << pageVars, eeService, predictions, bandCache >>

\* ecoPercentileCalculator.processTractsAsync(tracts): no timer is awaited,
\* so nothing else runs before it completes.
ProcessTractsAsync ==
    /\ ScoreIdle
    /\ \E rw \in Draws(call.tracts), rg \in Draws(call.tracts) :
       \E est \in {estimateBatch(eeService, call.tracts, rw, rg)} :
       \E fin \in {WritePercentiles(WriteScores(props, call.tracts, est, 1),
                                     BatchScores(call.tracts, est),
                                     call.tracts, 1)} :
          /\ props' = fin.props
          /\ allScores' = fin.allScores
          /\ eeService' = est.ee
    /\ call' = [op |-> "processTractsAsync", tracts |-> call.tracts]
    /\ UNCHANGED << pageVars, predictions, bandCache >>

\* processTractsWithProgress(tracts, cb), up to its first timer await.
ProgressStart ==
    /\ ScoreIdle
    /\ \E rw \in Draws(BatchAt(call.tracts, 0)),
          rg \in Draws(BatchAt(call.tracts, 0)) :
       \E b \in {ProgressBatch(eeService, props, BatchAt(call.tracts, 0),
                               rw, rg)} :
          /\ props' = b.props
          /\ eeService' = b.ee
          /\ call' = [op |-> "progress", tracts |-> call.tracts, i |-> 0,
                       results |-> b.scores]
    /\ UNCHANGED << pageVars, allScores, predictions, bandCache >>

\* The timer fires and another batch is scored.
ProgressNext ==
    /\ call.op = "progress"
    /\ call.i + BatchSize < Len(call.tracts)
    /\ \E rw \in Draws(BatchAt(call.tracts, call.i + BatchSize)),
          rg \in Draws(BatchAt(call.tracts, call.i + BatchSize)) :
       \E b \in {ProgressBatch(eeService, props,
                               BatchAt(call.tracts, call.i + BatchSize),
                               rw, rg)} :
          /\ props' = b.props
          /\ eeService' = b.ee
          /\ call' = [call EXCEPT !.i = call.i + BatchSize,
                                  !.results = call.results \o b.scores]
    /\ UNCHANGED << pageVars, allScores, predictions, bandCache >>

\* The timer fires after the last batch: percentiles, then the return.
ProgressDone ==
    /\ call.op = "progress"
    /\ call.i + BatchSize >= Len(call.tracts)
    /\ \E fin \in {ProgressFinish(props, call.tracts, call.results)} :
          /\ props' = fin.props
          /\ allScores' = fin.allScores
    /\ call' = [op |-> "processTractsWithProgress", tracts |-> call.tracts]
    /\ UNCHANGED << pageVars, eeService, predictions, bandCache >>

NextScore ==
    \/ ProcessTracts
    \/ ProcessTractsAsync
    \/ ProgressStart
    \/ ProgressNext
    \/ ProgressDone
    \/ EEInitialize

SpecScore == InitScore /\ [][NextScore]_vars

InScoreRange(x) == 0 <= x /\ x <= 100 * Pt

\* C1: once processTracts, processTractsAsync or processTractsWithProgress
\* has completed on a non-empty batch, every tract of the batch has
\* waterQuality, greenspace and ecoScore in [0, 100] and ecoPercentile in
\* 0..100, on the service path and on the fallback path alike.
ScoredTractsInRange ==
    call.op \in ScoreOps =>
        \A t \in Range(call.tracts) :
            /\ InScoreRange(props[t].waterQuality)
            /\ InScoreRange(props[t].greenspace)
            /\ InScoreRange(props[t].ecoScore)
            /\ props[t].ecoPercentile \in 0..100

\* C1 witness: a batch scored through the initialized service, with a
\* greenspace estimate that the clamp brought up to 0.
ScoredThroughServiceAtClamp ==
    /\ call.op \in {"processTractsAsync", "processTractsWithProgress"}
    /\ eeService.initialized
    /\ eeService.cache # << >>
    /\ \E t \in Range(call.tracts) :
          props[t].greenspace = 0 /\ props[t].ecoPercentile \in 0..100

-----------------------------------------------------------------------------
(* Predictions through the library: predictFutureEcoScore and              *)
(* getWorstPredictedTracts, with the tracts re-scored in between           *)

\* The horizons a caller asks for: one year, and the default of 15.
YearsAheadVals == {1, 15}

InitPredict ==
    /\ InitGlobals
    /\ \E b \in LibBatches, y \in YearsAheadVals :
          call = [op |-> "predictInput", tracts |-> b, yearsAhead |-> y]

\* ecoPercentileCalculator.processTracts(tracts), before or between
\* predictions.
RescoreTracts ==
    /\ \E rw \in Draws(call.tracts), rg \in Draws(call.tracts) :
       \E est \in {estimateBatchSync(eeService, call.tracts, rw, rg)} :
       \E fin \in {WritePercentiles(WriteScores(props, call.tracts, est, 1),
                                     BatchScores(call.tracts, est),
                                     call.tracts, 1)} :
          /\ props' = fin.props
          /\ allScores' = fin.allScores
    /\ call' = [op |-> "processTracts", tracts |-> call.tracts,
                 yearsAhead |-> call.yearsAhead]
    /\ UNCHANGED << pageVars, eeService, predictions, bandCache >>

\* simpleAIPredictor.predictFutureEcoScore(tract, yearsAhead) for one tract
\* of the batch.
PredictFutureEcoScore ==
    /\ \E i \in DOMAIN call.tracts :
       \E res \in {predictFutureEcoScore(predictions, call.tracts[i],
                                         props[call.tracts[i]],
                                         call.yearsAhead)} :
          /\ predictions' = res.cache
          /\ call' = [op |-> "predictFutureEcoScore", tracts |-> call.tracts,
                       yearsAhead |-> call.yearsAhead,
                       tract |-> call.tracts[i],
                       \* this.predictions.has(cacheKey)
                       hit |-> PredictionKey(call.tracts[i].lat,
                                             call.tracts[i].lon,
                                             call.yearsAhead)
                                  \in DOMAIN predictions,
                       prediction |-> res.prediction]
    /\ UNCHANGED << pageVars, props, allScores, eeService, bandCache >>

\* simpleAIPredictor.getWorstPredictedTracts(tracts, yearsAhead)
GetWorstPredictedTracts ==
    /\ \E w \in {getWorstPredictedTracts(predictions, props, call.tracts,
                                          call.yearsAhead)} :
          /\ props' = w.props
          /\ predictions' = w.cache
          /\ call' = [op |-> "getWorstPredictedTracts", tracts |-> call.tracts,
                       yearsAhead |-> call.yearsAhead,
                       worst |-> w.worst, preds |-> w.preds]
    /\ UNCHANGED << pageVars, allScores, eeService, bandCache >>

NextPredict ==
    \/ RescoreTracts
    \/ PredictFutureEcoScore
    \/ GetWorstPredictedTracts

SpecPredict == InitPredict /\ [][NextPredict]_vars

\* The Predictions the last library call handed back.
ReturnedPredictions ==
    IF call.op = "predictFutureEcoScore" THEN {call.prediction}
    ELSE IF call.op = "getWorstPredictedTracts"
    THEN {call.preds[i].prediction : i \in DOMAIN call.preds}
    ELSE {}

\* C3: the Prediction returned by predictFutureEcoScore has currentScore
\* equal to the tract's ecoScore at the time of the call (0 included), and 50
\* only when the tract has no ecoScore; so a tract re-scored between two
\* calls gets a Prediction made from its new score.
PredictionOfCurrentScore ==
    call.op = "predictFutureEcoScore" =>
        call.prediction.currentScore =
            (IF props[call.tract].ecoScore = Null THEN 50 * Pt
             ELSE props[call.tract].ecoScore)

\* riskLevel is the tier that the rules give for a current score, a
\* projected score and a horizon (rates compared after multiplying through
\* by 2 * yearsAhead).
RiskTierIs(riskLevel, currentScore, projected, yearsAhead) ==
    LET decline == currentScore - projected
        critical == projected < 30 * Pt \/ decline > 2 * Pt * yearsAhead
        high == projected < 50 * Pt \/ 2 * decline > 3 * Pt * yearsAhead
        moderate == 2 * decline > Pt * yearsAhead
    IN  /\ riskLevel = "critical" <=> critical
        /\ riskLevel = "high" <=> (~critical /\ high)
        /\ riskLevel = "moderate" <=> (~critical /\ ~high /\ moderate)
        /\ riskLevel = "low" <=> (~critical /\ ~high /\ ~moderate)

\* The projection a Prediction was made from, before Math.round.
ProjectedScore(q) == Clamp100(q.currentScore + q.annualDecline * q.yearsAhead)

\* C4 (as amended): in every returned Prediction, riskLevel is the tier of
\* the projection clamp(currentScore + annualDecline * yearsAhead) before it
\* is rounded, with strict thresholds 30 and 50 and rates 2, 1.5 and 0.5;
\* the predictedScore field is that projection rounded.
RiskTierOfProjection ==
    \A q \in ReturnedPredictions :
        /\ q.yearsAhead >= 1
        /\ RiskTierIs(q.riskLevel, q.currentScore, ProjectedScore(q),
                      q.yearsAhead)
        /\ q.predictedScore = RoundScore(ProjectedScore(q))

\* C4 (as claimed): in every returned Prediction, riskLevel is the tier of
\* the Prediction's own currentScore, predictedScore and yearsAhead fields.
RiskTierOfFields ==
    \A q \in ReturnedPredictions :
        RiskTierIs(q.riskLevel, q.currentScore, q.predictedScore, q.yearsAhead)

\* C4 witness: a Prediction projected to exactly 30 with a rate of 1.8 a
\* year is 'high', not 'critical'.
ProjectionOnThreshold ==
    /\ call.op = "predictFutureEcoScore"
    /\ ProjectedScore(call.prediction) = 30 * Pt
    /\ call.prediction.predictedScore = 30 * Pt
    /\ call.prediction.currentScore - 30 * Pt
          <= 2 * Pt * call.prediction.yearsAhead
    /\ call.prediction.riskLevel = "high"

\* The Prediction getWorstPredictedTracts computed for tract t.
PredictionFor(t) ==
    LET i == CHOOSE j \in DOMAIN call.preds : call.preds[j].tract = t
    IN  call.preds[i].prediction

\* C5: getWorstPredictedTracts returns exactly the input tracts whose
\* prediction has needsAction, needsAction means riskLevel critical or high,
\* and each returned tract carries its prediction in properties.prediction.
WorstAreThoseNeedingAction ==
    call.op = "getWorstPredictedTracts" =>
        /\ \A i \in DOMAIN call.preds :
              /\ call.preds[i].tract = call.tracts[i]
              /\ call.preds[i].prediction.needsAction
                    <=> call.preds[i].prediction.riskLevel
                            \in {"critical", "high"}
        /\ Len(call.preds) = Len(call.tracts)
        /\ Range(call.worst) =
              {t \in Range(call.tracts) :
                  PredictionFor(t).riskLevel \in {"critical", "high"}}
        /\ Cardinality(Range(call.worst)) = Len(call.worst)
        /\ \A t \in Range(call.worst) :
              props[t].prediction = << PredictionFor(t) >>

\* C5 witness: of two tracts, the one at high or critical risk is returned
\* with its prediction attached and the one at moderate risk is left out.
WorstLeavesModerateOut ==
    /\ call.op = "getWorstPredictedTracts"
    /\ Len(call.tracts) = 2
    /\ Len(call.worst) = 1
    /\ props[call.worst[1]].prediction = << PredictionFor(call.worst[1]) >>
    /\ \E t \in Range(call.tracts) : PredictionFor(t).riskLevel = "moderate"

\* C6: of two consecutive tracts of the returned list, the first is at
\* strictly more severe risk (critical before high), or both are at the
\* same risk and the first has the lower or equal predictedScore.
WorstAreOrdered ==
    call.op = "getWorstPredictedTracts" =>
        \A i \in 1..(Len(call.worst) - 1) :
            LET a == PredictionFor(call.worst[i])
                b == PredictionFor(call.worst[i + 1])
            IN  \/ (a.riskLevel = "critical" /\ b.riskLevel = "high")
                \/ (a.riskLevel = b.riskLevel
                      /\ a.predictedScore <= b.predictedScore)

\* C6 witness: two tracts at the same risk come back in the order of their
\* predicted scores, which is not the order they were handed in.
WorstReorderedByScore ==
    /\ call.op = "getWorstPredictedTracts"
    /\ Len(call.worst) = 2
    /\ call.worst[1] = call.tracts[2]
    /\ PredictionFor(call.worst[1]).riskLevel
          = PredictionFor(call.worst[2]).riskLevel
    /\ PredictionFor(call.worst[1]).predictedScore
          < PredictionFor(call.worst[2]).predictedScore

-----------------------------------------------------------------------------
(* SpectralIndicesCalculator (src/spectral-indices.js): the band sample of *)
(* a location.  A band value is an integer number of thousandths of a      *)
(* digital number (reflectance * 10000).                                   *)

isUrban(lat, lon) ==
    \/ (lat > 40 * Deg /\ lat < 42 * Deg /\ lon > -74 * Deg /\ lon < -73 * Deg)
    \/ (lat > 34 * Deg /\ lat < 35 * Deg /\ lon > -119 * Deg /\ lon < -118 * Deg)
    \/ (lat > 41 * Deg /\ lat < 42 * Deg /\ lon > -88 * Deg /\ lon < -87 * Deg)

isCoastal(lat, lon) ==
    \/ Abs(lon + 80 * Deg) < 5 * Deg
    \/ Abs(lon + 122 * Deg) < 5 * Deg
    \/ (lat > 25 * Deg /\ lat < 31 * Deg /\ lon > -85 * Deg /\ lon < -80 * Deg)

hasVegetation(lat, lon) ==
    \/ (lat > 45 * Deg /\ lat < 50 * Deg /\ lon > -125 * Deg /\ lon < -100 * Deg)
    \/ (lat > 30 * Deg /\ lat < 36 * Deg /\ lon > -90 * Deg /\ lon < -75 * Deg)

\* The five band values simulateSentinel2Bands computes from its five
\* Math.random() draws r[1..5] (red, green, blue, NIR, SWIR, in that order).
SimulatedBands(lat, lon, r) ==
    LET baseRed == 1500 * Pt + r[1] * Pt
        baseGreen == 1800 * Pt + r[2] * Pt
        baseBlue == 1200 * Pt + r[3] * Pt
        baseNIR == 2500 * Pt + (r[4] * 3 * Pt) \div 2
        baseSWIR == 2000 * Pt + r[5] * Pt
        nir1 == IF isUrban(lat, lon) THEN (baseNIR * 7) \div 10 ELSE baseNIR
        red1 == IF isUrban(lat, lon) THEN (baseRed * 12) \div 10 ELSE baseRed
        nir2 == IF hasVegetation(lat, lon) THEN (nir1 * 13) \div 10 ELSE nir1
        green2 == IF hasVegetation(lat, lon) THEN (baseGreen * 12) \div 10
                  ELSE baseGreen
        green3 == IF isCoastal(lat, lon) THEN (green2 * 11) \div 10 ELSE green2
        nir3 == IF isCoastal(lat, lon) THEN (nir2 * 8) \div 10 ELSE nir2
    IN  [B2 |-> baseBlue, B3 |-> green3, B4 |-> red1, B8 |-> nir3,
         B11 |-> baseSWIR]

\* Whether the identifier `date` resolves where simulateSentinel2Bands reads
\* it (line 171).  The function's parameters are (lat, lon), it declares no
\* such local, and no script of the repository declares a global of that
\* name.
DateInScope == FALSE

(***************************************************************************)
(* simulateSentinel2Bands(lat, lon).  The returned object literal          *)
(* evaluates its properties in order; `date: date || ...` reads an         *)
(* identifier that is not in scope, which throws a ReferenceError before   *)
(* any object is returned.                                                 *)
(***************************************************************************)
simulateSentinel2Bands(lat, lon, r) ==
    IF DateInScope
    THEN [outcome |-> "returned",
          value |-> [bands |-> SimulatedBands(lat, lon, r),
                     source |-> "simulated"]]
    ELSE [outcome |-> "threw", error |-> "ReferenceError"]

\* async fetchSentinel2Bands(lat, lon, date): a throw rejects its promise.
fetchSentinel2Bands(lat, lon, date, r) ==
    LET sim == simulateSentinel2Bands(lat, lon, r)
    IN  IF sim.outcome = "returned"
        THEN [outcome |-> "resolved", value |-> sim.value]
        ELSE [outcome |-> "rejected", error |-> sim.error]

\* `${lat.toFixed(4)},${lon.toFixed(4)},${date || 'latest'}`; the empty
\* string stands for a null or omitted date.
BandCacheKey(lat, lon, date) ==
    << toFixed4(lat), toFixed4(lon), IF date = "" THEN "latest" ELSE date >>

\* async getSentinel2Bands(lat, lon, date).  Result: [outcome, ..., cache].
getSentinel2Bands(cache, lat, lon, date, r) ==
    LET cacheKey == BandCacheKey(lat, lon, date)
    IN  IF cacheKey \in DOMAIN cache
        THEN [outcome |-> "resolved", value |-> cache[cacheKey],
              cache |-> cache]
        ELSE LET bands == fetchSentinel2Bands(lat, lon, date, r)
             IN  IF bands.outcome = "resolved"
                 THEN [outcome |-> "resolved", value |-> bands.value,
                       cache |-> [k \in DOMAIN cache \cup {cacheKey} |->
                                    IF k = cacheKey THEN bands.value
                                    ELSE cache[k]]]
                 ELSE [outcome |-> "rejected", error |-> bands.error,
                       cache |-> cache]

\* The dates a caller passes: none, or a day.
DateVals == {"", "2024-06-01"}

InitBands ==
    /\ InitGlobals
    /\ \E t \in AllTracts, date \in DateVals, r \in [1..5 -> RandVals] :
          call = [op |-> "bandsInput", lat |-> t.lat, lon |-> t.lon,
                  date |-> date, r |-> r]

\* spectralIndicesCalculator.getSentinel2Bands(lat, lon, date), awaited.
GetSentinel2Bands ==
    /\ \E res \in {getSentinel2Bands(bandCache, call.lat, call.lon,
                                      call.date, call.r)} :
          /\ bandCache' = res.cache
          /\ call' = [op |-> "getSentinel2Bands", lat |-> call.lat,
                       lon |-> call.lon, date |-> call.date, r |-> call.r,
                       result |-> [f \in DOMAIN res \ {"cache"} |-> res[f]]]
    /\ UNCHANGED << pageVars, props, allScores, eeService, predictions >>

NextBands == GetSentinel2Bands

SpecBands == InitBands /\ [][NextBands]_vars

\* C7: getSentinel2Bands never fails: for every lat, lon and optional date
\* it resolves to a sample with the five bands and source 'simulated', and
\* the sample is then in the cache under the call's key.
BandsAlwaysResolve ==
    call.op = "getSentinel2Bands" =>
        /\ call.result.outcome = "resolved"
        /\ call.result.value.source = "simulated"
        /\ DOMAIN call.result.value.bands = {"B2", "B3", "B4", "B8", "B11"}
        /\ BandCacheKey(call.lat, call.lon, call.date) \in DOMAIN bandCache
        /\ bandCache[BandCacheKey(call.lat, call.lon, call.date)]
              = call.result.value

-----------------------------------------------------------------------------
(* The map page: percentiles of the visible tracts, and what a tract       *)
(* carries from one viewport to the next                                   *)

\* Every visible tract's ecoPercentile is its rank share among the visible
\* tracts' current ecoScore values.
PercentilesOfVisible ==
    \A i \in DOMAIN visibleTracts :
        props[visibleTracts[i]].ecoPercentile =
            MathRound(100 * Cardinality(
                          {j \in DOMAIN visibleTracts :
                              props[visibleTracts[j]].ecoScore
                                  <= props[visibleTracts[i]].ecoScore}),
                      Len(visibleTracts))

\* C2: whenever a loadTractsForView run completes and assigns
\* visibleTracts, every visible tract's ecoPercentile is
\* round(100 * count(u visible with u.ecoScore <= t.ecoScore) / |visible|)
\* over the current ecoScore values, for every interleaving of runs.
PercentilesPerBatch ==
    [][\A h \in Handlers :
         (run[h].pc = "delay" /\ run'[h].pc # "delay")
             => PercentilesOfVisible']_vars

\* C8 (as claimed): the tracts handed to scoring when a run starts carry no
\* waterQuality, greenspace, ecoScore, ecoPercentile or prediction.
HandedTractsAreFresh ==
    [][\A h \in Handlers :
         (run[h].pc # "delay" /\ run'[h].pc = "delay")
             => \A t \in Range(run'[h].tracts) : props[t] = FreshProps]_vars

\* C8 (as amended): the tract objects are generated once and are the same
\* for every viewport, and a waterQuality, greenspace, ecoScore,
\* ecoPercentile or prediction written to a tract is never cleared: it
\* stays until a later scoring or prediction overwrites it.
TractsPersist ==
    [][/\ censusTractData.initialized
            => censusTractData' = censusTractData
       /\ \A t \in Range(GridTracts) :
            /\ props[t].waterQuality # Null => props'[t].waterQuality # Null
            /\ props[t].greenspace # Null => props'[t].greenspace # Null
            /\ props[t].ecoScore # Null => props'[t].ecoScore # Null
            /\ props[t].ecoPercentile # Null
                  => props'[t].ecoPercentile # Null
            /\ props[t].prediction # << >>
                  => props'[t].prediction # << >>]_vars

\* C8 witness: the only run in flight has not reached its last tract yet,
\* and that tract carries the percentile and the prediction of an earlier
\* viewport's evaluation.
UnscoredTractCarriesValues ==
    \E h \in Handlers :
        /\ run[h].pc = "delay"
        /\ \A g \in Handlers \ {h} : run[g].pc # "delay"
        /\ run[h].i + BatchSize < Len(run[h].tracts)
        /\ LET t == run[h].tracts[Len(run[h].tracts)]
           IN  /\ props[t].ecoPercentile # Null
               /\ props[t].prediction # << >>

-----------------------------------------------------------------------------
(* calculateEcoScore on its own *)

\* Water-quality and greenspace arguments handed to calculateEcoScore
\* (thousandths of a point); the function does not validate them, so values
\* below 0 and above 100 are included.
EcoInputs == {0 - 20 * Pt, 0, 29100, 40 * Pt, 60 * Pt, 80 * Pt, 100 * Pt,
              250 * Pt}

InitEcoScore ==
    /\ InitGlobals
    /\ \E waterQuality \in EcoInputs, greenspace \in EcoInputs :
          call = [op |-> "ecoScoreInput", waterQuality |-> waterQuality,
                  greenspace |-> greenspace]

\* ecoPercentileCalculator.calculateEcoScore(waterQuality, greenspace)
CalculateEcoScore ==
    /\ call.op = "ecoScoreInput"
    /\ call' = [op |-> "calculateEcoScore",
                waterQuality |-> call.waterQuality,
                greenspace |-> call.greenspace,
                value |-> calculateEcoScore(call.waterQuality,
                                            call.greenspace)]
    /\ UNCHANGED << pageVars, props, allScores, eeService, predictions,
                    bandCache >>

NextEcoScore == CalculateEcoScore

SpecEcoScore == InitEcoScore /\ [][NextEcoScore]_vars

\* C11: calculateEcoScore(waterQuality, greenspace) is the equally weighted
\* mean of its arguments clamped to [0, 100], for arguments inside and
\* outside that range; calculateEcoScore(80, 40) is 60; and exchanging the
\* two arguments gives the same score.
EcoScoreIsClampedMean ==
    call.op = "calculateEcoScore"
        => /\ call.value
                 = Max(0, Min(100 * Pt,
                              (5 * call.waterQuality + 5 * call.greenspace)
                                  \div 10))
           /\ (call.waterQuality = 80 * Pt /\ call.greenspace = 40 * Pt)
                 => call.value = 60 * Pt
           /\ calculateEcoScore(call.greenspace, call.waterQuality)
                 = call.value

\* C11 witness: calculateEcoScore(80, 40) has returned 60.
EcoScoreOfEightyAndForty ==
    /\ call.op = "calculateEcoScore"
    /\ call.waterQuality = 80 * Pt
    /\ call.greenspace = 40 * Pt
    /\ call.value = 60 * Pt

-----------------------------------------------------------------------------
(* Score converters (src/spectral-indices.js, src/unnamed/part_002) *)

\* A spectral index is kept in thousandths: Ix is the index value 1.
Ix == 10 * 100

\* SpectralIndicesCalculator.ndviToGreenspace
ndviToGreenspace(ndvi) ==
    IF ndvi < 0 THEN 0
    ELSE IF ndvi < 300 THEN ndvi * 50
    ELSE IF ndvi < 600 THEN 15 * Pt + (ndvi - 300) * 100
    ELSE \* 45 + (ndvi - 0.6) * 137.5
         45 * Pt + ((ndvi - 600) * 1375) \div 10

\* ndwiToWaterQuality without the Math.min / Math.max around its result.
ndwiToWaterQuality_NoClamp(ndwi) ==
    LET baseQuality == (ndwi + Ix) * 50
    IN  IF ndwi > 500 THEN baseQuality + 20 * Pt
        ELSE IF ndwi > 0 THEN baseQuality
        ELSE baseQuality - 20 * Pt

\* ndwiToWaterQuality with 0.5 and 0 counted into the branch above them.
ndwiToWaterQuality_Inclusive(ndwi) ==
    LET baseQuality == (ndwi + Ix) * 50
    IN  IF ndwi >= 500 THEN Min(100 * Pt, baseQuality + 20 * Pt)
        ELSE IF ndwi >= 0 THEN baseQuality
        ELSE Max(0, baseQuality - 20 * Pt)

\* SpectralIndicesCalculator.ndwiToWaterQuality
ndwiToWaterQuality(ndwi) ==
    LET baseQuality == (ndwi + Ix) * 50
    IN  IF ndwi > 500 THEN Min(100 * Pt, baseQuality + 20 * Pt)
        ELSE IF ndwi > 0 THEN baseQuality
        ELSE Max(0, baseQuality - 20 * Pt)

\* GreenspaceAnalyzer.ndviToCoverage
ndviToCoverage(ndvi) ==
    IF ndvi < 0 THEN 0
    ELSE IF ndvi < 300 THEN ndvi * 50
    ELSE IF ndvi < 600 THEN 15 * Pt + (ndvi - 300) * 100
    ELSE 45 * Pt + ((ndvi - 600) * 1375) \div 10

\* Index values handed to the converters: every 0.05 from -1.2 to 1.2. The
\* converters do not validate their argument, so values outside [-1, 1]
\* are included.
IndexSteps == 24
IndexVals == {50 * k : k \in (0 - IndexSteps)..IndexSteps}

Converters == {"ndviToGreenspace", "ndwiToWaterQuality", "ndviToCoverage"}

InitConvert ==
    /\ InitGlobals
    /\ \E fn \in Converters, index \in IndexVals :
          call = [op |-> "convertInput", fn |-> fn, index |-> index]

\* spectralIndicesCalculator.ndviToGreenspace(ndvi)
NdviToGreenspace ==
    /\ call.op = "convertInput"
    /\ call.fn = "ndviToGreenspace"
    /\ call' = [op |-> "ndviToGreenspace", index |-> call.index,
                value |-> ndviToGreenspace(call.index)]
    /\ UNCHANGED << pageVars, props, allScores, eeService, predictions,
                    bandCache >>

\* spectralIndicesCalculator.ndwiToWaterQuality(ndwi)
NdwiToWaterQuality ==
    /\ call.op = "convertInput"
    /\ call.fn = "ndwiToWaterQuality"
    /\ call' = [op |-> "ndwiToWaterQuality", index |-> call.index,
                value |-> ndwiToWaterQuality(call.index)]
    /\ UNCHANGED << pageVars, props, allScores, eeService, predictions,
                    bandCache >>

\* greenspaceAnalyzer.ndviToCoverage(ndvi)
NdviToCoverage ==
    /\ call.op = "convertInput"
    /\ call.fn = "ndviToCoverage"
    /\ call' = [op |-> "ndviToCoverage", index |-> call.index,
                value |-> ndviToCoverage(call.index)]
    /\ UNCHANGED << pageVars, props, allScores, eeService, predictions,
                    bandCache >>

NextConvert ==
    \/ NdviToGreenspace
    \/ NdwiToWaterQuality
    \/ NdviToCoverage

SpecConvert == InitConvert /\ [][NextConvert]_vars

\* C12: for an index value in [-1, 1], ndviToGreenspace, ndwiToWaterQuality
\* and ndviToCoverage each return a score in [0, 100].
ConvertersInScoreRange ==
    (/\ call.op \in Converters
     /\ 0 - Ix <= call.index
     /\ call.index <= Ix)
        => (0 <= call.value /\ call.value <= 100 * Pt)

\* C12 witness: ndwiToWaterQuality(1) has returned 100, where the clamp cut
\* off base + 20 = 120.
WaterQualityClampedAtOne ==
    /\ call.op = "ndwiToWaterQuality"
    /\ call.index = Ix
    /\ call.value = 100 * Pt

\* C13: ndviToGreenspace(ndvi) is 0 below 0, ndvi * 50 on [0, 0.3),
\* 15 + (ndvi - 0.3) * 100 on [0.3, 0.6), and from 0.6 upwards
\* 45 + (ndvi - 0.6) * 137.5 cut off at 100, also for ndvi above 1.
GreenspaceIsClampedPiecewise ==
    call.op = "ndviToGreenspace"
        => call.value
             = (IF call.index < 0 THEN 0
                ELSE IF call.index < 300 THEN call.index * 50
                ELSE IF call.index < 600
                     THEN 15 * Pt + (call.index - 300) * 100
                ELSE Min(100 * Pt,
                         45 * Pt + ((call.index - 600) * 1375) \div 10))

\* C14: with base = (ndwi + 1) * 50, ndwiToWaterQuality(ndwi) is
\* min(100, base + 20) for ndwi > 0.5, base for 0 < ndwi <= 0.5 and
\* max(0, base - 20) for ndwi <= 0; ndwi = 0.5 gives base = 75 and ndwi = 0
\* gives base - 20 = 30.
WaterQualityIsPiecewise ==
    call.op = "ndwiToWaterQuality"
        => /\ call.index > 500
                 => call.value = Min(100 * Pt, (call.index + Ix) * 50 + 20 * Pt)
           /\ (0 < call.index /\ call.index <= 500)
                 => call.value = (call.index + Ix) * 50
           /\ call.index <= 0
                 => call.value = Max(0, (call.index + Ix) * 50 - 20 * Pt)
           /\ call.index = 500 => call.value = 75 * Pt
           /\ call.index = 0 => call.value = 30 * Pt

\* C14 witness: ndwiToWaterQuality(0.5) has returned the base quality 75.
WaterQualityAtHalf ==
    /\ call.op = "ndwiToWaterQuality"
    /\ call.index = 500
    /\ call.value = 75 * Pt

-----------------------------------------------------------------------------
(* Spectral index functions (src/spectral-indices.js) *)

\* Band reflectances and indices are JavaScript Numbers.  The model keeps a
\* finite Number in thousandths and gives the format a small width: results
\* beyond MaxValue overflow to +Infinity or -Infinity as results beyond
\* Number.MAX_VALUE do, and NaN arises where IEEE 754 arithmetic yields it.
\* Rounding of the last digit is to the nearest thousandth.
MaxValue == 100 * Ix
PosInf == MaxValue + 1
NegInf == 0 - PosInf
NaN == MaxValue + 2

IsInf(x) == x = PosInf \/ x = NegInf

Sign(x) == IF x > 0 THEN 1 ELSE IF x < 0 THEN 0 - 1 ELSE 0

\* An exact result as a Number: overflow gives an infinity.
ToNumber(x) ==
    IF x > MaxValue THEN PosInf
    ELSE IF x < 0 - MaxValue THEN NegInf
    ELSE x

\* num / den to the nearest integer, den # 0.
Quot(num, den) ==
    Sign(num) * Sign(den) * ((2 * Abs(num) + Abs(den)) \div (2 * Abs(den)))

\* a + b
FAdd(a, b) ==
    IF a = NaN \/ b = NaN THEN NaN
    ELSE IF IsInf(a) /\ IsInf(b) THEN (IF a = b THEN a ELSE NaN)
    ELSE IF IsInf(a) THEN a
    ELSE IF IsInf(b) THEN b
    ELSE ToNumber(a + b)

\* a - b
FSub(a, b) == FAdd(a, IF b = NaN THEN NaN ELSE 0 - b)

\* a * b
FMul(a, b) ==
    IF a = NaN \/ b = NaN THEN NaN
    ELSE IF IsInf(a) \/ IsInf(b)
         THEN (IF a = 0 \/ b = 0 THEN NaN
               ELSE IF Sign(a) * Sign(b) > 0 THEN PosInf ELSE NegInf)
    ELSE ToNumber(Quot(a * b, Ix))

\* a / b
FDiv(a, b) ==
    IF a = NaN \/ b = NaN THEN NaN
    ELSE IF IsInf(a) /\ IsInf(b) THEN NaN
    ELSE IF IsInf(a)
         THEN (IF Sign(a) * Sign(b) >= 0 /\ a = PosInf THEN PosInf
               ELSE IF Sign(b) < 0 /\ a = NegInf THEN PosInf
               ELSE IF a = PosInf THEN NegInf
               ELSE NegInf)
    ELSE IF IsInf(b) THEN 0
    ELSE IF b = 0
         THEN (IF a = 0 THEN NaN ELSE IF a > 0 THEN PosInf ELSE NegInf)
    ELSE ToNumber(Quot(a * Ix, b))

\* Math.max(-1, Math.min(1, x)): NaN passes through both.
ClampIndex(x) == IF x = NaN THEN NaN ELSE Max(0 - Ix, Min(Ix, x))

\* calculateNDVI without its `nir + red === 0` guard.
calculateNDVI_NoGuard(red, nir) ==
    ClampIndex(FDiv(FSub(nir, red), FAdd(nir, red)))

\* SpectralIndicesCalculator.calculateNDVI
calculateNDVI(red, nir) ==
    IF FAdd(nir, red) = 0 THEN 0
    ELSE LET ndvi == FDiv(FSub(nir, red), FAdd(nir, red))
         IN  ClampIndex(ndvi)

\* SpectralIndicesCalculator.calculateNDWI
calculateNDWI(green, nir) ==
    IF FAdd(green, nir) = 0 THEN 0
    ELSE LET ndwi == FDiv(FSub(green, nir), FAdd(green, nir))
         IN  ClampIndex(ndwi)

\* SpectralIndicesCalculator.calculateEVI
calculateEVI(red, nir, blue) ==
    LET denominator ==
            FAdd(FSub(FAdd(nir, FMul(6 * Ix, red)), FMul(7500, blue)), Ix)
    IN  IF denominator = 0 THEN 0
        ELSE LET evi == FMul(2500, FDiv(FSub(nir, red), denominator))
             IN  ClampIndex(evi)

\* SpectralIndicesCalculator.calculateMNDWI
calculateMNDWI(green, swir) ==
    IF FAdd(green, swir) = 0 THEN 0
    ELSE LET mndwi == FDiv(FSub(green, swir), FAdd(green, swir))
         IN  ClampIndex(mndwi)

\* SpectralIndicesCalculator.calculateSAVI
calculateSAVI(red, nir, L) ==
    LET denominator == FAdd(FAdd(nir, red), L)
    IN  IF denominator = 0 THEN 0
        ELSE LET savi == FMul(FDiv(FSub(nir, red), denominator),
                              FAdd(Ix, L))
             IN  ClampIndex(savi)

\* The default of calculateSAVI's third parameter: L = 0.5.
DefaultL == Ix \div 2

\* A band value near the largest finite Number.
Huge == 60 * Ix

\* Finite band reflectances handed to the index functions.  The functions
\* do not validate them: negative values, values that cancel in a
\* denominator and values near the ends of the Number range are included.
ReflVals ==
    {0 - Huge, 0 - 500, 0 - 225, 0, 150, 200, 225, 500, Ix, Huge}

IndexFns == {"calculateNDVI", "calculateNDWI", "calculateMNDWI",
             "calculateEVI", "calculateSAVI"}

InitIndices ==
    /\ InitGlobals
    /\ \/ \E fn \in IndexFns \ {"calculateEVI"},
             a \in ReflVals, b \in ReflVals :
             call = [op |-> "indexInput", fn |-> fn, args |-> << a, b >>]
       \/ \E red \in ReflVals, nir \in ReflVals, blue \in ReflVals :
             call = [op |-> "indexInput", fn |-> "calculateEVI",
                     args |-> << red, nir, blue >>]

\* The index function fn applied to the argument list args.
IndexValue(fn, args) ==
    CASE fn = "calculateNDVI" -> calculateNDVI(args[1], args[2])
      [] fn = "calculateNDWI" -> calculateNDWI(args[1], args[2])
      [] fn = "calculateMNDWI" -> calculateMNDWI(args[1], args[2])
      [] fn = "calculateEVI" -> calculateEVI(args[1], args[2], args[3])
      [] fn = "calculateSAVI" -> calculateSAVI(args[1], args[2], DefaultL)

IndexCall(fn) ==
    /\ call.op = "indexInput"
    /\ call.fn = fn
    /\ call' = [op |-> fn, args |-> call.args,
                value |-> IndexValue(fn, call.args)]
    /\ UNCHANGED << pageVars, props, allScores, eeService, predictions,
                    bandCache >>

\* spectralIndicesCalculator.calculateNDVI(red, nir)
CalculateNDVI == IndexCall("calculateNDVI")
\* spectralIndicesCalculator.calculateNDWI(green, nir)
CalculateNDWI == IndexCall("calculateNDWI")
\* spectralIndicesCalculator.calculateMNDWI(green, swir)
CalculateMNDWI == IndexCall("calculateMNDWI")
\* spectralIndicesCalculator.calculateEVI(red, nir, blue)
CalculateEVI == IndexCall("calculateEVI")
\* spectralIndicesCalculator.calculateSAVI(red, nir)
CalculateSAVI == IndexCall("calculateSAVI")

NextIndices ==
    \/ CalculateNDVI
    \/ CalculateNDWI
    \/ CalculateMNDWI
    \/ CalculateEVI
    \/ CalculateSAVI

SpecIndices == InitIndices /\ [][NextIndices]_vars

\* C15: calculateNDVI(red, nir) is 0 when nir + red is 0, and otherwise the
\* quotient (nir - red) / (nir + red), as JavaScript evaluates it, cut off
\* at -1 and 1; calculateNDVI(0.15, 0.225) is 0.2.
NdviIsGuardedQuotient ==
    call.op = "calculateNDVI"
        => LET red == call.args[1]
               nir == call.args[2]
           IN  /\ FAdd(nir, red) = 0 => call.value = 0
               /\ FAdd(nir, red) # 0
                     => /\ call.value # NaN
                        /\ call.value
                              = Max(0 - Ix,
                                    Min(Ix, FDiv(FSub(nir, red),
                                                 FAdd(nir, red))))
               /\ (red = 150 /\ nir = 225) => call.value = 200

\* C15 witness: calculateNDVI(0.225, -0.225) has returned 0 for a zero
\* denominator whose numerator is not zero.
NdviOfCancellingBands ==
    /\ call.op = "calculateNDVI"
    /\ call.args = << 225, 0 - 225 >>
    /\ call.value = 0

\* C16: each of calculateNDVI, calculateNDWI, calculateMNDWI, calculateEVI
\* and calculateSAVI returns a number in [-1, 1] for every finite band
\* input.
IndicesInRange ==
    call.op \in IndexFns
        => /\ call.value # NaN
           /\ 0 - Ix <= call.value
           /\ call.value <= Ix

-----------------------------------------------------------------------------
(* Trend classification and annual decline of a location *)

\* Locations handed to the predictor, on a grid of half degrees that has
\* points inside, outside and on the edges of every bounding box the
\* predictor tests (latitudes 26 .. 46, longitudes -124 .. -73.5).
TrendLats ==
    {(k * Deg) \div 2 :
        k \in {52, 59, 67, 68, 69, 70, 71, 73, 75, 79, 80, 81, 83, 89, 92}}
TrendLons ==
    {0 - (k * Deg) \div 2 :
        k \in {248, 245, 238, 237, 236, 235, 232, 210, 191, 175, 166, 165, 154,
               149, 148, 147}}

\* The location (38.5, -122.9) in Sonoma County.
SonomaLat == (77 * Deg) \div 2
SonomaLon == 0 - (1229 * Deg) \div 10

InitTrend ==
    /\ InitGlobals
    /\ \/ \E lat \in TrendLats, lon \in TrendLons :
             call = [op |-> "trendInput", lat |-> lat, lon |-> lon]
       \/ call = [op |-> "trendInput", lat |-> SonomaLat, lon |-> SonomaLon]

\* aiPredictor.calculateTrend(tract)
CalculateTrend ==
    /\ call.op = "trendInput"
    /\ call' = [op |-> "calculateTrend", lat |-> call.lat, lon |-> call.lon,
                trend |-> calculateTrend(call.lat, call.lon)]
    /\ UNCHANGED << pageVars, props, allScores, eeService, predictions,
                    bandCache >>

\* The trend factors of predictFutureEcoScore and their sum:
\* calculateTrend, getRegionalTrendFactor, getUrbanPressureFactor, then
\* calculateAnnualDecline(trend, regionalFactor, urbanPressure).
CalculateAnnualDecline ==
    /\ call.op = "trendInput"
    /\ \E trend \in {calculateTrend(call.lat, call.lon)},
          regionalFactor \in {getRegionalTrendFactor(call.lat, call.lon)},
          urbanPressure \in {getUrbanPressureFactor(call.lat, call.lon)} :
          call' = [op |-> "calculateAnnualDecline",
                   lat |-> call.lat, lon |-> call.lon,
                   trend |-> trend,
                   regionalFactor |-> regionalFactor,
                   urbanPressure |-> urbanPressure,
                   annualDecline |-> calculateAnnualDecline(trend,
                                                            regionalFactor,
                                                            urbanPressure)]
    /\ UNCHANGED << pageVars, props, allScores, eeService, predictions,
                    bandCache >>

NextTrend ==
    \/ CalculateTrend
    \/ CalculateAnnualDecline

SpecTrend == InitTrend /\ [][NextTrend]_vars

\* C17: calculateTrend returns declining for an urban location; otherwise
\* stable for a location in a protected-area box; otherwise at_risk for a
\* coastal location; otherwise slight_decline.  An urban coastal location
\* is declining and a protected coastal location is stable.
TrendIsFirstMatch ==
    call.op = "calculateTrend"
        => LET urban == SimpleAIPredictor_isUrbanArea(call.lat, call.lon)
               protected == isProtectedArea(call.lat, call.lon)
               coastal == SimpleAIPredictor_isCoastal(call.lat, call.lon)
           IN  /\ urban => call.trend = "declining"
               /\ (~urban /\ protected) => call.trend = "stable"
               /\ (~urban /\ ~protected /\ coastal)
                     => call.trend = "at_risk"
               /\ (~urban /\ ~protected /\ ~coastal)
                     => call.trend = "slight_decline"
               /\ (urban /\ coastal) => call.trend = "declining"
               /\ (protected /\ coastal) => call.trend = "stable"

\* C17 witness: a location that is both in a protected-area box and coastal
\* has been classified stable.
ProtectedCoastIsStable ==
    /\ call.op = "calculateTrend"
    /\ isProtectedArea(call.lat, call.lon)
    /\ SimpleAIPredictor_isCoastal(call.lat, call.lon)
    /\ call.trend = "stable"

\* The regions of getRegionalTrendFactor.
InSouthernCalifornia(lat, lon) ==
    lat > 34 * Deg /\ lat < 36 * Deg /\ lon > -119 * Deg /\ lon < -117 * Deg
InNYCArea(lat, lon) ==
    lat > 40 * Deg /\ lat < 42 * Deg /\ lon > -74 * Deg /\ lon < -73 * Deg
InPacificNorthwest(lat, lon) ==
    lat > 45 * Deg /\ lat < 50 * Deg /\ lon > -125 * Deg /\ lon < -100 * Deg

\* C18: annualDecline is the sum of the base decline of the location's
\* trend (-1.5 declining, -1.0 at_risk, -0.5 slight_decline, -0.1 stable),
\* its regional factor (-0.8 Southern California, else -0.7 NYC, else -0.2
\* Pacific Northwest, else -0.5) and its urban pressure factor (-1.2 urban,
\* else -0.8 suburban, else -0.3).
AnnualDeclineIsSumOfFactors ==
    call.op = "calculateAnnualDecline"
        => LET baseDecline ==
                   CASE call.trend = "declining" -> -1500
                     [] call.trend = "at_risk" -> -1000
                     [] call.trend = "slight_decline" -> -500
                     [] call.trend = "stable" -> -100
               regional ==
                   IF InSouthernCalifornia(call.lat, call.lon) THEN -800
                   ELSE IF InNYCArea(call.lat, call.lon) THEN -700
                   ELSE IF InPacificNorthwest(call.lat, call.lon) THEN -200
                   ELSE -500
               pressure ==
                   IF SimpleAIPredictor_isUrbanArea(call.lat, call.lon)
                   THEN -1200
                   ELSE IF isSuburban(call.lat, call.lon) THEN -800
                   ELSE -300
           IN  /\ call.trend = calculateTrend(call.lat, call.lon)
               /\ call.regionalFactor = regional
               /\ call.urbanPressure = pressure
               /\ call.annualDecline = baseDecline + regional + pressure

\* C18 witness: a location in both an urban and a suburban box (New York)
\* has the urban pressure factor and the annual decline
\* -1.5 - 0.7 - 1.2 = -3.4.
UrbanBeforeSuburban ==
    /\ call.op = "calculateAnnualDecline"
    /\ SimpleAIPredictor_isUrbanArea(call.lat, call.lon)
    /\ isSuburban(call.lat, call.lon)
    /\ call.annualDecline = -3400

-----------------------------------------------------------------------------
(* The projected score of a Prediction and repeated predictions *)

\* C19: the predictedScore field of the Prediction that
\* predictFutureEcoScore returns is
\* clamp(currentScore + annualDecline * yearsAhead, 0, 100), for every
\* score, location and horizon.
PredictedFieldIsProjection ==
    call.op = "predictFutureEcoScore"
        => LET q == call.prediction
           IN  q.predictedScore
                 = Max(0, Min(100 * Pt,
                              q.currentScore + q.annualDecline * q.yearsAhead))

\* C19 (as amended): the predictedScore field of the returned Prediction is
\* Math.round of clamp(currentScore + annualDecline * yearsAhead, 0, 100),
\* a whole number of points in [0, 100], where currentScore,
\* annualDecline and yearsAhead are the Prediction's own fields,
\* yearsAhead is the horizon of the call and annualDecline is the decline
\* of the tract's location.
PredictedFieldIsRoundedProjection ==
    call.op = "predictFutureEcoScore"
        => LET q == call.prediction
               projected ==
                   Max(0, Min(100 * Pt,
                              q.currentScore + q.annualDecline * q.yearsAhead))
           IN  /\ q.yearsAhead = call.yearsAhead
               /\ q.annualDecline
                     = calculateAnnualDecline(
                           calculateTrend(call.tract.lat, call.tract.lon),
                           getRegionalTrendFactor(call.tract.lat,
                                                  call.tract.lon),
                           getUrbanPressureFactor(call.tract.lat,
                                                  call.tract.lon))
               /\ q.predictedScore = ((2 * projected + Pt) \div (2 * Pt)) * Pt
               /\ 0 <= q.predictedScore
               /\ q.predictedScore <= 100 * Pt

\* C19 witness: a Prediction has been returned whose projection is not a
\* whole number of points and was rounded down (fraction below one half).
ProjectionRoundedDown ==
    /\ call.op = "predictFutureEcoScore"
    /\ LET q == call.prediction
           projected == q.currentScore + q.annualDecline * q.yearsAhead
       IN  /\ projected > 0
           /\ q.predictedScore < projected

\* C20: when predictFutureEcoScore is called twice in a row for the same
\* tract and horizon, with nothing changed in between, the second call
\* returns a Prediction equal to the first in every field and leaves the
\* prediction cache as it was.
PredictIsIdempotent ==
    [][(/\ call.op = "predictFutureEcoScore"
        /\ call'.op = "predictFutureEcoScore"
        /\ call'.tract = call.tract
        /\ call'.yearsAhead = call.yearsAhead
        /\ props'[call.tract] = props[call.tract])
          => (/\ call'.prediction = call.prediction
              /\ predictions' = predictions)]_vars

\* C20 witness: a call has been answered from the cache for a tract whose
\* score is still the one the cached Prediction was made from.
RepeatedPredictionFromCache ==
    /\ call.op = "predictFutureEcoScore"
    /\ call.hit
    /\ call.prediction.currentScore = props[call.tract].ecoScore

-----------------------------------------------------------------------------
(* The Sonoma County location *)

\* C21: at the location (38.5, -122.9) the urban predicate and the coastal
\* predicates are false and calculateTrend returns slight_decline.
SonomaIsSlightDecline ==
    (/\ call.op = "calculateTrend"
     /\ call.lat = SonomaLat
     /\ call.lon = SonomaLon)
        => /\ ~SimpleAIPredictor_isUrbanArea(call.lat, call.lon)
           /\ ~SimpleAIPredictor_isCoastal(call.lat, call.lon)
           /\ ~isCoastalArea(call.lat, call.lon)
           /\ call.trend = "slight_decline"

\* C21 (as amended): at the location (38.5, -122.9) the urban predicate is
\* false, the coastal predicates of the trend projector and of the fallback
\* estimator are true (the longitude is within 5 degrees of -122), the
\* location is in no protected-area box, and calculateTrend returns
\* at_risk.
SonomaIsAtRisk ==
    (/\ call.op = "calculateTrend"
     /\ call.lat = SonomaLat
     /\ call.lon = SonomaLon)
        => /\ ~SimpleAIPredictor_isUrbanArea(call.lat, call.lon)
           /\ ~isProtectedArea(call.lat, call.lon)
           /\ SimpleAIPredictor_isCoastal(call.lat, call.lon)
           /\ isCoastalArea(call.lat, call.lon)
           /\ call.trend = "at_risk"

\* C21 witness: calculateTrend has classified (38.5, -122.9).
SonomaClassified ==
    /\ call.op = "calculateTrend"
    /\ call.lat = SonomaLat
    /\ call.lon = SonomaLon
    /\ call.trend = "at_risk"

-----------------------------------------------------------------------------
(* estimateWaterQuality and estimateGreenspace on their own *)

\* The getCountyData call both estimators make.
EstimateReq(lat, lon, rw, rg) ==
    << [countyName |-> "County", state |-> "State", lat |-> lat, lon |-> lon,
        rw |-> rw, rg |-> rg] >>

\* estimateWaterQuality without the try / catch around the service call.
estimateWaterQuality_NoCatch(ee, eeDefined, rejects, lat, lon, rw, rg, r) ==
    LET hit == ee.useCache
                  /\ CountyCacheKey("County", "State") \in DOMAIN ee.cache
        round == getCountyDataRound(ee, EstimateReq(lat, lon, rw, rg))
    IN  IF eeDefined /\ ee.initialized
        THEN IF hit \/ ~rejects
             THEN [rejected |-> FALSE,
                   value |-> round.data[1].waterQuality,
                   ee |-> round.ee, data |-> << round.data[1] >>]
             ELSE [rejected |-> TRUE, value |-> Null, ee |-> ee,
                   data |-> << >>]
        ELSE [rejected |-> FALSE,
              value |-> estimateWaterQualitySync(lat, lon, r),
              ee |-> ee, data |-> << >>]

(***************************************************************************)
(* EcoPercentileCalculator.estimateWaterQuality(lat, lon).                 *)
(* eeDefined: a script has declared eeService (typeof eeService is not     *)
(* 'undefined').  rejects: the fetch awaited by getCountyData fails; a     *)
(* cache hit returns before that await, and the cache write comes after    *)
(* it, so a failed call leaves the cache as it was.  rw, rg: the draws of  *)
(* the service; r: the draw of the fallback.                               *)
(* Result: [rejected, value, ee, data], data the record getCountyData      *)
(* resolved to, if it did.                                                 *)
(***************************************************************************)
estimateWaterQuality(ee, eeDefined, rejects, lat, lon, rw, rg, r) ==
    LET hit == ee.useCache
                  /\ CountyCacheKey("County", "State") \in DOMAIN ee.cache
        round == getCountyDataRound(ee, EstimateReq(lat, lon, rw, rg))
    IN  IF eeDefined /\ ee.initialized /\ (hit \/ ~rejects)
        THEN [rejected |-> FALSE,
              value |-> round.data[1].waterQuality,
              ee |-> round.ee, data |-> << round.data[1] >>]
        ELSE \* not available, or caught: fallback to estimation
             [rejected |-> FALSE,
              value |-> estimateWaterQualitySync(lat, lon, r),
              ee |-> ee, data |-> << >>]

\* EcoPercentileCalculator.estimateGreenspace(lat, lon)
estimateGreenspace(ee, eeDefined, rejects, lat, lon, rw, rg, r) ==
    LET hit == ee.useCache
                  /\ CountyCacheKey("County", "State") \in DOMAIN ee.cache
        round == getCountyDataRound(ee, EstimateReq(lat, lon, rw, rg))
    IN  IF eeDefined /\ ee.initialized /\ (hit \/ ~rejects)
        THEN [rejected |-> FALSE,
              value |-> round.data[1].greenspace,
              ee |-> round.ee, data |-> << round.data[1] >>]
        ELSE [rejected |-> FALSE,
              value |-> estimateGreenspaceSync(lat, lon, r),
              ee |-> ee, data |-> << >>]

InitEstimate ==
    /\ InitGlobals
    /\ \E eeDefined \in BOOLEAN :
          call = [op |-> "estimateIdle", eeDefined |-> eeDefined]

\* The call record of a finished estimate.
EstimateCall(op, t, rejects, r, res) ==
    [op |-> op, eeDefined |-> call.eeDefined,
     lat |-> t.lat, lon |-> t.lon, rejects |-> rejects, r |-> r,
     ready |-> call.eeDefined /\ eeService.initialized,
     hit |-> eeService.useCache
                /\ CountyCacheKey("County", "State")
                      \in DOMAIN eeService.cache,
     rejected |-> res.rejected, value |-> res.value, data |-> res.data]

\* await ecoPercentileCalculator.estimateWaterQuality(lat, lon)
EstimateWaterQuality ==
    /\ \E t \in LibTracts, rejects \in BOOLEAN,
          rw \in RandVals, rg \in RandVals, r \in RandVals :
       \E res \in {estimateWaterQuality(eeService, call.eeDefined, rejects,
                                         t.lat, t.lon, rw, rg, r)} :
          /\ eeService' = res.ee
          /\ call' = EstimateCall("estimateWaterQuality", t, rejects, r, res)
    /\ UNCHANGED << pageVars, props, allScores, predictions, bandCache >>

\* await ecoPercentileCalculator.estimateGreenspace(lat, lon)
EstimateGreenspace ==
    /\ \E t \in LibTracts, rejects \in BOOLEAN,
          rw \in RandVals, rg \in RandVals, r \in RandVals :
       \E res \in {estimateGreenspace(eeService, call.eeDefined, rejects,
                                       t.lat, t.lon, rw, rg, r)} :
          /\ eeService' = res.ee
          /\ call' = EstimateCall("estimateGreenspace", t, rejects, r, res)
    /\ UNCHANGED << pageVars, props, allScores, predictions, bandCache >>

\* eeService.initialize(), on a page that has the service.
EstimateEEInitialize ==
    /\ call.eeDefined
    /\ EEInitialize

NextEstimate ==
    \/ EstimateWaterQuality
    \/ EstimateGreenspace
    \/ EstimateEEInitialize

SpecEstimate == InitEstimate /\ [][NextEstimate]_vars

EstimateOps == {"estimateWaterQuality", "estimateGreenspace"}

\* C22: estimateWaterQuality and estimateGreenspace never reject; each
\* resolves to a number in [0, 100], and when eeService is undefined or not
\* initialized, or its getCountyData call rejects, that number is the
\* synchronous fallback estimate.
EstimatesNeverReject ==
    call.op \in EstimateOps
        => /\ ~call.rejected
           /\ 0 <= call.value
           /\ call.value <= 100 * Pt
           /\ (~call.ready \/ (call.rejects /\ ~call.hit))
                 => /\ call.data = << >>
                    /\ call.value
                          = (IF call.op = "estimateWaterQuality"
                             THEN estimateWaterQualitySync(call.lat, call.lon,
                                                           call.r)
                             ELSE estimateGreenspaceSync(call.lat, call.lon,
                                                         call.r))

\* C22 witness: with the service initialized, its getCountyData call
\* rejected and estimateWaterQuality resolved to the fallback estimate.
RejectionFellBack ==
    /\ call.op = "estimateWaterQuality"
    /\ call.ready
    /\ call.rejects
    /\ ~call.hit
    /\ ~call.rejected
    /\ call.data = << >>

\* C24: when the service answers an estimate, the data it returns was
\* computed for the requested location: its lat and lon, rounded to four
\* decimals, are those of the request, after any sequence of calls for
\* other locations.
ServiceDataIsForLocation ==
    (call.op \in EstimateOps /\ call.data # << >>)
        => /\ toFixed4(call.data[1].lat) = toFixed4(call.lat)
           /\ toFixed4(call.data[1].lon) = toFixed4(call.lon)

-----------------------------------------------------------------------------
(* Score categories (src/unnamed/part_003, src/unnamed/part_002) *)

\* WaterQualityAnalyzer.getQualityCategory
getQualityCategory(index) ==
    IF index >= 80 * Pt THEN "Excellent"
    ELSE IF index >= 60 * Pt THEN "Good"
    ELSE IF index >= 40 * Pt THEN "Moderate"
    ELSE IF index >= 20 * Pt THEN "Poor"
    ELSE "Very Poor"

\* GreenspaceAnalyzer.getGreenspaceCategory
getGreenspaceCategory(coverage) ==
    IF coverage >= 60 * Pt THEN "Excellent"
    ELSE IF coverage >= 40 * Pt THEN "Good"
    ELSE IF coverage >= 20 * Pt THEN "Moderate"
    ELSE IF coverage >= 10 * Pt THEN "Poor"
    ELSE "Very Poor"

\* Scores handed to the category functions: every whole number of points
\* from 0 to 100 and the value one thousandth below each.
CategoryScores ==
    {k * Pt : k \in 0..100} \cup {k * Pt - 1 : k \in 1..100}

CategoryFns == {"getQualityCategory", "getGreenspaceCategory"}

InitCategory ==
    /\ InitGlobals
    /\ \E fn \in CategoryFns, score \in CategoryScores :
          call = [op |-> "categoryInput", fn |-> fn, score |-> score]

\* waterQualityAnalyzer.getQualityCategory(index)
GetQualityCategory ==
    /\ call.op = "categoryInput"
    /\ call.fn = "getQualityCategory"
    /\ call' = [op |-> "getQualityCategory", score |-> call.score,
                category |-> getQualityCategory(call.score)]
    /\ UNCHANGED << pageVars, props, allScores, eeService, predictions,
                    bandCache >>

\* greenspaceAnalyzer.getGreenspaceCategory(coverage)
GetGreenspaceCategory ==
    /\ call.op = "categoryInput"
    /\ call.fn = "getGreenspaceCategory"
    /\ call' = [op |-> "getGreenspaceCategory", score |-> call.score,
                category |-> getGreenspaceCategory(call.score)]
    /\ UNCHANGED << pageVars, props, allScores, eeService, predictions,
                    bandCache >>

NextCategory ==
    \/ GetQualityCategory
    \/ GetGreenspaceCategory

SpecCategory == InitCategory /\ [][NextCategory]_vars

\* C23: getQualityCategory and getGreenspaceCategory both map a score s to
\* Excellent if s >= 80, Good if 60 <= s < 80, Moderate if 40 <= s < 60,
\* Poor if 20 <= s < 40 and Very Poor if s < 20.
CategoriesShareThresholds ==
    call.op \in CategoryFns
        => call.category
             = (IF call.score >= 80 * Pt THEN "Excellent"
                ELSE IF call.score >= 60 * Pt THEN "Good"
                ELSE IF call.score >= 40 * Pt THEN "Moderate"
                ELSE IF call.score >= 20 * Pt THEN "Poor"
                ELSE "Very Poor")

-----------------------------------------------------------------------------
(* Overlapping getSentinel2Bands calls *)

\* getSentinel2Bands calls started in one behaviour.
MaxBandCalls == 3

\* The locations of the calls: two tracts with different cache keys.
BandTracts == SampleTracts

BandKeys == {BandCacheKey(t.lat, t.lon, date) : t \in BandTracts,
                                                date \in DateVals}

\* call.pending: the calls that missed the cache and await their fetch, in
\* the order they started, each with the outcome of its fetch;
\* call.fetches: how often fetchSentinel2Bands has been called for a key;
\* call.returned: the outcomes of the calls that have completed.
InitBandCalls ==
    /\ InitGlobals
    /\ call = [op |-> "bandCalls", started |-> 0, pending |-> << >>,
               fetches |-> [k \in BandKeys |-> 0], returned |-> << >>]

\* getSentinel2Bands(lat, lon, date) from its call to its await: the cache
\* lookup, and on a miss the call of fetchSentinel2Bands, whose body (the
\* simulation) runs before the caller is suspended.
StartGetSentinel2Bands ==
    /\ call.op = "bandCalls"
    /\ call.started < MaxBandCalls
    /\ \E t \in BandTracts, date \in DateVals, r \in [1..5 -> RandVals] :
          LET cacheKey == BandCacheKey(t.lat, t.lon, date)
          IN  IF cacheKey \in DOMAIN bandCache
              THEN call' = [call EXCEPT
                              !.started = @ + 1,
                              !.returned = Append(@,
                                  [key |-> cacheKey, outcome |-> "resolved",
                                   value |-> << bandCache[cacheKey] >>])]
              ELSE \E bands \in {fetchSentinel2Bands(t.lat, t.lon, date, r)} :
                     call' = [call EXCEPT
                                !.started = @ + 1,
                                !.fetches[cacheKey] = @ + 1,
                                !.pending = Append(@,
                                    [key |-> cacheKey,
                                     outcome |-> bands.outcome,
                                     value |-> IF bands.outcome = "resolved"
                                               THEN << bands.value >>
                                               ELSE << >>])]
    /\ UNCHANGED << pageVars, props, allScores, eeService, predictions,
                    bandCache >>

\* The await of a pending call resumes: on a resolved fetch
\* this.cache.set(cacheKey, bands) and the return; on a rejected one the
\* call rejects before the cache write.  Fetches settle in the order they
\* were started.
CompleteGetSentinel2Bands ==
    /\ call.op = "bandCalls"
    /\ call.pending # << >>
    /\ LET c == Head(call.pending)
       IN  /\ bandCache' =
                 IF c.outcome = "resolved"
                 THEN [k \in DOMAIN bandCache \cup {c.key} |->
                         IF k = c.key THEN c.value[1] ELSE bandCache[k]]
                 ELSE bandCache
           /\ call' = [call EXCEPT
                         !.pending = Tail(@),
                         !.returned = Append(@,
                             [key |-> c.key,
                              outcome |-> IF c.outcome = "resolved"
                                          THEN "resolved" ELSE "rejected",
                              value |-> c.value])]
    /\ UNCHANGED << pageVars, props, allScores, eeService, predictions >>

NextBandCalls ==
    \/ StartGetSentinel2Bands
    \/ CompleteGetSentinel2Bands

SpecBandCalls == InitBandCalls /\ [][NextBandCalls]_vars

\* C25: for every interleaving of getSentinel2Bands calls, the fetch runs at
\* most once for a cache key, every call with that key returns the same
\* band sample, and an entry written to the cache is the one the calls for
\* its key returned.
BandsFetchedOncePerKey ==
    call.op = "bandCalls"
        => /\ \A k \in BandKeys : call.fetches[k] <= 1
           /\ \A i, j \in DOMAIN call.returned :
                 call.returned[i].key = call.returned[j].key
                    => call.returned[i] = call.returned[j]
           /\ \A i \in DOMAIN call.returned :
                 call.returned[i].key \in DOMAIN bandCache
                    => call.returned[i].value
                          = << bandCache[call.returned[i].key] >>

-----------------------------------------------------------------------------
(* The urban predicates of the pipeline *)

UrbanFns == {"isUrban", "EcoPercentileCalculator.isUrbanArea",
             "SimpleAIPredictor.isUrbanArea"}

InitUrban ==
    /\ InitGlobals
    /\ \E fn \in UrbanFns, lat \in TrendLats, lon \in TrendLons :
          call = [op |-> "urbanInput", fn |-> fn, lat |-> lat, lon |-> lon]

\* spectralIndicesCalculator.isUrban(lat, lon)
IsUrban ==
    /\ call.op = "urbanInput"
    /\ call.fn = "isUrban"
    /\ call' = [op |-> call.fn, lat |-> call.lat, lon |-> call.lon,
                value |-> isUrban(call.lat, call.lon)]
    /\ UNCHANGED << pageVars, props, allScores, eeService, predictions,
                    bandCache >>

\* ecoPercentileCalculator.isUrbanArea(lat, lon)
IsUrbanArea ==
    /\ call.op = "urbanInput"
    /\ call.fn = "EcoPercentileCalculator.isUrbanArea"
    /\ call' = [op |-> call.fn, lat |-> call.lat, lon |-> call.lon,
                value |-> isUrbanArea(call.lat, call.lon)]
    /\ UNCHANGED << pageVars, props, allScores, eeService, predictions,
                    bandCache >>

\* simpleAIPredictor.isUrbanArea(lat, lon)
PredictorIsUrbanArea ==
    /\ call.op = "urbanInput"
    /\ call.fn = "SimpleAIPredictor.isUrbanArea"
    /\ call' = [op |-> call.fn, lat |-> call.lat, lon |-> call.lon,
                value |-> SimpleAIPredictor_isUrbanArea(call.lat, call.lon)]
    /\ UNCHANGED << pageVars, props, allScores, eeService, predictions,
                    bandCache >>

NextUrban ==
    \/ IsUrban
    \/ IsUrbanArea
    \/ PredictorIsUrbanArea

SpecUrban == InitUrban /\ [][NextUrban]_vars

\* C26: for every location, the urban predicate of the band synthesizer,
\* of the fallback estimator and of the trend projector return the same
\* boolean.
UrbanPredicatesAgree ==
    call.op \in UrbanFns
        => /\ call.value = isUrban(call.lat, call.lon)
           /\ call.value = isUrbanArea(call.lat, call.lon)
           /\ call.value = SimpleAIPredictor_isUrbanArea(call.lat, call.lon)

-----------------------------------------------------------------------------
(* Direction of the projection *)

\* C27: in every Prediction the trend projector returns, annualDecline lies
\* in [-3.5, -0.6], predictedScore is at most currentScore, and riskLevel
\* is not low.
ProjectionNeverImproves ==
    \A q \in ReturnedPredictions :
        /\ 0 - 3500 <= q.annualDecline
        /\ q.annualDecline <= 0 - 600
        /\ q.predictedScore <= q.currentScore
        /\ Max(0, Min(100 * Pt, q.currentScore + q.annualDecline * q.yearsAhead))
              <= q.currentScore
        /\ q.riskLevel # "low"

\* C27 witness: a Prediction with the mildest decline, -0.6 a year, one
\* year ahead and a projection of 50 or more has been returned; its tier
\* is moderate.
MildestDeclineIsModerate ==
    /\ call.op = "predictFutureEcoScore"
    /\ call.prediction.annualDecline = 0 - 600
    /\ call.prediction.yearsAhead = 1
    /\ call.prediction.predictedScore >= 50 * Pt
    /\ call.prediction.riskLevel = "moderate"

-----------------------------------------------------------------------------
(* The action filter of the map page (src/eco-map-tracts.js) *)

\* Number.prototype.toFixed(2) of a coordinate, in units of 1e-2 degree.
toFixed2(x) == IF x >= 0 THEN (x + 500) \div 1000 ELSE -((-x + 500) \div 1000)

\* properties.id of a generated tract: `tract_${lat.toFixed(2)}_${lon.toFixed(2)}`
\* of the cell's south-west corner (the centroid less half a step); it is
\* never empty, so the `|| lat_lon` alternative of updateTractLayers is not
\* taken.
TractId(t) ==
    << "tract", toFixed2(t.lat - DensityStep("high") \div 2),
       toFixed2(t.lon - DensityStep("high") \div 2) >>

\* updateTractLayers: the tracts the rebuilt layers show (tractsToDisplay;
\* nothing when visibleTracts is empty).
updateTractLayers(visible, active, worst) ==
    IF Len(visible) = 0 THEN << >>
    ELSE IF active /\ Len(worst) > 0
    THEN SelectSeq(visible,
                   LAMBDA t : \E i \in DOMAIN worst :
                                 TractId(worst[i]) = TractId(t))
    ELSE visible

\* toggleView(mode): the filter is switched off and the layers rebuilt (the
\* view mode only chooses colours).
ToggleView ==
    /\ actionFilterActive' = FALSE
    /\ UNCHANGED << censusTractData, props, allScores, eeService, predictions,
                    bandCache, run, visibleTracts, worstPredictedTracts, call >>

\* The page with the map's 'load' and 'moveend' handlers and the two buttons.
FilterHandlers == {"load", "moveend"}

NextFilter ==
    \/ \E h \in FilterHandlers, mapBounds \in Viewports :
          LoadTractsForView(h, mapBounds)
    \/ \E h \in FilterHandlers : NextBatch(h)
    \/ \E h \in FilterHandlers : FinishRun(h)
    \/ ToggleActionFilter
    \/ ToggleView

SpecFilter == Init /\ [][NextFilter]_vars

\* No loadTractsForView run is waiting on its timer: the handler that ran
\* last has ended with updateTractLayers() on the present globals
\* (loadTractsForView, toggleActionFilter and toggleView all end with it).
LayersCurrent == \A h \in Handlers : run[h].pc # "delay"

\* What simpleAIPredictor.predictFutureEcoScore(tract, 15) says of a tract now.
NeedsActionNow(t) ==
    predictFutureEcoScore(predictions, t, props[t], 15).prediction.needsAction

\* C28: with the action filter active, the layers updateTractLayers built
\* show exactly the visible tracts whose 15-year prediction needs action.
FilterShowsTractsNeedingAction ==
    (LayersCurrent /\ actionFilterActive) =>
        updateTractLayers(visibleTracts, actionFilterActive,
                          worstPredictedTracts)
        = SelectSeq(visibleTracts, LAMBDA t : NeedsActionNow(t))

-----------------------------------------------------------------------------
(* AIPredictor (src/ai-predictions.js) *)

\* initialize() calls started over the life of the page.
MaxInitCalls == 4

\* Who calls aiPredictor.initialize(): the timer of the window's 'load'
\* handler, predictWaterQuality and predictGreenspace.
InitCallers == {"background", "predictWaterQuality", "predictGreenspace"}

\* The constructor: no models, trained false.  A model object is named by
\* the createModels run that built it (0: null).
NewAIPredictor ==
    [models |-> [waterQuality |-> 0, greenspace |-> 0], trained |-> FALSE]

\* createModels, its n-th run: without TensorFlow.js it returns at once,
\* with it both models are replaced by new compiled ones.
createModels(ai, tfDefined, n) ==
    IF ~tfDefined THEN ai
    ELSE [ai EXCEPT !.models = [waterQuality |-> n, greenspace |-> n]]

\* trainModels has something to await: TensorFlow.js is there and
\* this.models.waterQuality is set.
trainModelsFits(ai, tfDefined) == tfDefined /\ ai.models.waterQuality # 0

\* call.pc[c]: "idle", "fitWater" and "fitGreen" (initialize is inside
\* trainModels, waiting for that model's fit), "done".
InitAIPredictor ==
    /\ InitGlobals
    /\ \E tfDefined \in BOOLEAN :
          call = [op |-> "aiPredictor", tfDefined |-> tfDefined,
                  ai |-> NewAIPredictor,
                  pc |-> [c \in InitCallers |-> "idle"],
                  skipped |-> [c \in InitCallers |-> FALSE],
                  createRuns |-> 0, trainRuns |-> 0, starts |-> 0,
                  completed |-> 0, runsAtCompletion |-> 0]

\* initialize(), from its call to its first wait on the event loop: the
\* trained check, createModels (it awaits nothing), and trainModels up to the
\* fit of the water model; without TensorFlow.js nothing is waited for and
\* trained is set in the same task.  The load timer calls it once;
\* predictWaterQuality and predictGreenspace make the same trained test
\* before they call it, any number of times over the life of the page (a
\* prediction that finds trained set goes on without the call).
Initialize(c) ==
    /\ call.op = "aiPredictor"
    /\ call.starts < MaxInitCalls
    /\ IF c = "background" THEN call.pc[c] = "idle"
       ELSE call.pc[c] \in {"idle", "done"}
    /\ IF call.ai.trained
       THEN call' = [call EXCEPT !.pc[c] = "done", !.skipped[c] = TRUE,
                                 !.starts = @ + 1]
       ELSE \E ai \in {createModels(call.ai, call.tfDefined,
                                    call.createRuns + 1)} :
              IF trainModelsFits(ai, call.tfDefined)
              THEN call' = [call EXCEPT !.ai = ai, !.pc[c] = "fitWater",
                                        !.skipped[c] = FALSE,
                                        !.createRuns = @ + 1,
                                        !.trainRuns = @ + 1,
                                        !.starts = @ + 1]
              ELSE call' = [call EXCEPT !.ai = [ai EXCEPT !.trained = TRUE],
                                        !.pc[c] = "done",
                                        !.skipped[c] = FALSE,
                                        !.createRuns = @ + 1,
                                        !.trainRuns = @ + 1,
                                        !.starts = @ + 1,
                                        !.completed = @ + 1,
                                        !.runsAtCompletion =
                                            IF call.completed = 0
                                            THEN call.createRuns + 1 ELSE @]
    /\ UNCHANGED << pageVars, props, allScores, eeService, predictions,
                    bandCache >>

\* models.waterQuality.fit(...) resolves; the fit of the greenspace model
\* starts.
FitWaterQuality(c) ==
    /\ call.op = "aiPredictor"
    /\ call.pc[c] = "fitWater"
    /\ call' = [call EXCEPT !.pc[c] = "fitGreen"]
    /\ UNCHANGED << pageVars, props, allScores, eeService, predictions,
                    bandCache >>

\* models.greenspace.fit(...) resolves: trainModels returns and initialize
\* sets trained.
FitGreenspace(c) ==
    /\ call.op = "aiPredictor"
    /\ call.pc[c] = "fitGreen"
    /\ call' = [call EXCEPT !.pc[c] = "done", !.ai.trained = TRUE,
                            !.completed = @ + 1,
                            !.runsAtCompletion =
                                IF call.completed = 0
                                THEN call.createRuns ELSE @]
    /\ UNCHANGED << pageVars, props, allScores, eeService, predictions,
                    bandCache >>

NextAIPredictor ==
    \/ \E c \in InitCallers : Initialize(c)
    \/ \E c \in InitCallers : FitWaterQuality(c)
    \/ \E c \in InitCallers : FitGreenspace(c)

SpecAIPredictor == InitAIPredictor /\ [][NextAIPredictor]_vars

\* C29: over every interleaving of initialize() calls, createModels and
\* trainModels each run at most once.
ModelsCreatedAndTrainedOnce ==
    call.op = "aiPredictor" => call.createRuns <= 1 /\ call.trainRuns <= 1

-----------------------------------------------------------------------------
(* EarthEngineService.calculateQualityFromImagery (src/unnamed/part_000) *)

\* imagery.ndwi and imagery.turbidity in thousandths; the result in
\* thousandths of a point.  Math.round takes halves towards +Infinity, for
\* negative numbers too.
calculateQualityFromImagery(imagery) ==
    LET ndwiScore == imagery.ndwi * 50
        turbidityScore == (Ix - imagery.turbidity) * 50
    IN  MathRound(ndwiScore + turbidityScore, 2 * Ix) * Pt

\* Imagery samples: ndwi over [-1, 1] and turbidity over [0, 1] in tenths.
ImageryNdwi == { (k * Ix) \div 10 : k \in (0 - 10)..10 }

ImageryTurbidity == { (k * Ix) \div 10 : k \in 0..10 }

InitImagery ==
    /\ InitGlobals
    /\ \E ndwi \in ImageryNdwi, turbidity \in ImageryTurbidity :
          call = [op |-> "imageryInput",
                  imagery |-> [ndwi |-> ndwi, turbidity |-> turbidity]]

\* earthEngineService.calculateQualityFromImagery(imagery)
CalculateQualityFromImagery ==
    /\ call.op = "imageryInput"
    /\ call' = [op |-> "calculateQualityFromImagery",
                imagery |-> call.imagery,
                value |-> calculateQualityFromImagery(call.imagery)]
    /\ UNCHANGED << pageVars, props, allScores, eeService, predictions,
                    bandCache >>

NextImagery == CalculateQualityFromImagery

SpecImagery == InitImagery /\ [][NextImagery]_vars

\* C30: calculateQualityFromImagery returns an index in [0, 100] for every
\* sample with ndwi in [-1, 1] and turbidity in [0, 1].
ImageryQualityInRange ==
    call.op = "calculateQualityFromImagery" =>
        call.value >= 0 /\ call.value <= 100 * Pt

=============================================================================
